---- MODULE Spec2Model ----
(***************************************************************************)
(* A model of the pacman-agent decision engine: the A* route planner and   *)
(* the collision filter of shared.py, the attacker of attackAgent.py and   *)
(* the defender of defendAgent.py, run turn by turn against a board.       *)
(*                                                                         *)
(* Positions are pairs <<x, y>>; a board is a layout (its open cells, the  *)
(* food, the capsules and the spawn points of a small maze) plus what      *)
(* changes during a match.  The match engine (capture.py, game.py) is not  *)
(* part of the repository: the model plays its part in EnvStep.            *)
(***************************************************************************)
EXTENDS Integers, Sequences, FiniteSets, TLC

VARIABLES
    gs,      \* the game_state handed to choose_action: the board snapshot
    agent,   \* the policy instance: its role, team and fields
    ret,     \* what the last choose_action returned (a move, or how it faulted)
    phase,   \* whose step it is: "agent", "env", or a single run of a function
    srch,    \* one run of aStarSearch: goal, frontier, visited set, result
    avd      \* one call of avoid_enemy_collision: its arguments and result

vars == <<gs, agent, ret, phase, srch, avd>>

-----------------------------------------------------------------------------
(* Program constants.                                                      *)

ATT_DISTANCE_FROM_ENEMY_TO_FLEE == 6
ATT_COST_HEURISTIC_ENEMY_CLOSE == 5
FOOD_EATEN_TO_RETURN == 5
ATT_CAPSULE_EFFECT_DURATION == 35
TURNS_FLEEING_TOO_MUCH == 4
TURNS_HAS_TO_FLEE == 6
COST_HEURISTIC_CROSSING_ENEMY_FIELD == 5
DEF_CAPSULE_EFFECT_DURATION == 40
NO_DISTANCE == 999999

\* Python's None for a position (an enemy out of sight, a field never set).
\* <<0, 0>> is a corner of the outer wall, never a position of the game.
None == <<0, 0>>

Moves == {"North", "South", "East", "West"}

-----------------------------------------------------------------------------
(* Layouts.  Every layout is walled in: the open cells lie in              *)
(* 1..width-2 x 1..height-2.  The red team's half is x < width \div 2.     *)

Rect(x1, x2, y1, y2) == {<<x, y>> : x \in x1..x2, y \in y1..y2}

\* 6 x 4, the inner 4 x 2 block open.
LayoutBlock ==
    [width |-> 6, height |-> 4, open |-> Rect(1, 4, 1, 2)]

\* 8 x 5, two rings sharing the column x = 4, the first cell past the midline.
LayoutRing ==
    [width |-> 8, height |-> 5,
     open |-> Rect(1, 6, 1, 3) \ {<<2, 2>>, <<3, 2>>, <<5, 2>>}]

\* 18 x 3, one corridor: every column has a single open cell.
LayoutCorridor ==
    [width |-> 18, height |-> 3, open |-> Rect(1, 16, 1, 1)]

\* 12 x 4, a hall two cells high.
LayoutHall ==
    [width |-> 12, height |-> 4, open |-> Rect(1, 10, 1, 2)]

\* 3 x 4, one column of two open cells.
LayoutColumn ==
    [width |-> 3, height |-> 4, open |-> Rect(1, 1, 1, 2)]

\* 8 x 5, an open room with one cell on the red side walled in on all four
\* sides.
LayoutPocket ==
    [width |-> 8, height |-> 5,
     open |-> Rect(1, 6, 1, 3) \ {<<2, 1>>, <<3, 2>>, <<4, 1>>}]

LayoutIds == 1..6

Layout(l) ==
    CASE l = 1 -> LayoutBlock
      [] l = 2 -> LayoutRing
      [] l = 3 -> LayoutCorridor
      [] l = 4 -> LayoutHall
      [] l = 5 -> LayoutColumn
      [] l = 6 -> LayoutPocket

Step(pos, action) ==
    CASE action = "North" -> <<pos[1], pos[2] + 1>>
      [] action = "South" -> <<pos[1], pos[2] - 1>>
      [] action = "East"  -> <<pos[1] + 1, pos[2]>>
      [] action = "West"  -> <<pos[1] - 1, pos[2]>>
      [] OTHER -> pos

Walls(l, pos) == pos \notin Layout(l).open

Neighbours(l, pos) == {Step(pos, a) : a \in Moves} \cap Layout(l).open

\* The distancer of captureAgents: true shortest-path distances, computed
\* breadth first once per layout.
RECURSIVE BfsDist(_, _, _, _, _)
BfsDist(l, front, seen, goal, d) ==
    IF goal \in front THEN d
    ELSE IF front = {} THEN NO_DISTANCE
    ELSE LET next == (UNION {Neighbours(l, p) : p \in front}) \ seen
         IN  BfsDist(l, next, seen \cup next, goal, d + 1)

DistTable ==
    [l \in LayoutIds |->
        [p \in Layout(l).open |->
            [q \in Layout(l).open |-> BfsDist(l, {p}, {p}, q, 0)]]]

get_maze_distance(ag, pos1, pos2) == DistTable[ag.lay][pos1][pos2]

-----------------------------------------------------------------------------
(* shared.py: the board queries.                                           *)

\* Actions.get_possible_actions: the directions whose cell is no wall, in the
\* engine's direction order (gs.order), Stop always among them.
get_legal_actions_own(ag, game_state, pos) ==
    LET ok(a) == ~Walls(game_state.lay, Step(pos, a))
    IN  SelectSeq(game_state.order, ok) \o <<"Stop">>

\* GameState.get_legal_actions: the same, from the agent's own position.
get_legal_actions(ag, game_state) ==
    get_legal_actions_own(ag, game_state, game_state.pos)

in_our_field(ag, position, game_state) ==
    IF ag.red
    THEN position[1] < (Layout(game_state.lay).width \div 2)
    ELSE position[1] >= (Layout(game_state.lay).width \div 2)

get_our_position(ag, game_state) == game_state.pos

get_my_initial_position(ag, game_state) == game_state.spawn

get_initial_enemy_position(ag, game_state) == game_state.enemySpawn

\* The enemies in sight, as get_opponents / get_agent_position give them:
\* one entry per opponent, None for one out of sight.
VisibleEnemies(game_state) ==
    {game_state.enemies[i] : i \in 1..Len(game_state.enemies)} \ {None}

-----------------------------------------------------------------------------
(* The two heuristics plugged into aStarSearch.                            *)

\* AttackAgent.heuristic
AttackHeuristic(ag, pos, game_state) ==
    IF \E e \in VisibleEnemies(game_state) :
            /\ ~in_our_field(ag, e, game_state)
            /\ get_maze_distance(ag, pos, e) < ATT_DISTANCE_FROM_ENEMY_TO_FLEE
    THEN ATT_COST_HEURISTIC_ENEMY_CLOSE
    ELSE 1

\* DefendAgent.heuristic
DefendHeuristic(ag, pos, game_state) ==
    IF ~in_our_field(ag, pos, game_state)
    THEN COST_HEURISTIC_CROSSING_ENEMY_FIELD
    ELSE 1

\* agent.heuristic: dispatch on the class of the agent.
heuristic(ag, pos, game_state) ==
    IF ag.role = "attack"
    THEN AttackHeuristic(ag, pos, game_state)
    ELSE DefendHeuristic(ag, pos, game_state)

-----------------------------------------------------------------------------
(* util.PriorityQueue as aStarSearch uses it.  A heap entry is             *)
(* (priority, count, item); the item is the whole search node              *)
(* [pos, actions, cost].  heapq pops the least (priority, count).          *)

\* A frontier popped last in, first out.
HeapLast(heap) ==
    CHOOSE e \in heap : \A f \in heap : e.c >= f.c

HeapMin(heap) ==
    CHOOSE e \in heap :
        \A f \in heap : e.p < f.p \/ (e.p = f.p /\ e.c <= f.c)

\* PriorityQueue.push
PQPush(q, item, priority) ==
    [heap  |-> q.heap \cup {[p |-> priority, c |-> q.count, item |-> item]},
     count |-> q.count + 1]

\* PriorityQueue.update: an entry holding an equal item is replaced when its
\* priority is higher, left alone when it is lower or equal; with no such
\* entry the item is pushed.
PQUpdate(q, item, priority) ==
    IF \E e \in q.heap : e.item = item
    THEN LET e == CHOOSE f \in q.heap : f.item = item
         IN  IF e.p <= priority
             THEN q
             ELSE [q EXCEPT !.heap =
                      (q.heap \ {e}) \cup {[p |-> priority, c |-> e.c, item |-> item]}]
    ELSE PQPush(q, item, priority)

-----------------------------------------------------------------------------
(* shared.aStarSearch.  A run is a record: the frontier (heap, count), the *)
(* visited set, and its outcome once it has one.                           *)

\* Lines 34-37: the frontier holds the start node with cost 0.
AStarInit(initial_position) ==
    [heap    |-> {[p |-> 0, c |-> 0,
                   item |-> [pos |-> initial_position, actions |-> <<>>, cost |-> 0]]},
     count   |-> 1,
     visited |-> {},
     status  |-> "running",
     pos     |-> None,
     actions |-> <<>>]

\* Lines 49-60: the successors of pos, one per legal action but Stop.
SuccessorStates(ag, game_state, pos) ==
    LET legal == get_legal_actions_own(ag, game_state, pos)
        cardinal(a) == a \in Moves
        acts == SelectSeq(legal, cardinal)
    IN  [i \in 1..Len(acts) |-> [pos |-> Step(pos, acts[i]), action |-> acts[i], stepCost |-> 1]]

\* Lines 63-70: each successor goes to the frontier with the priority
\* cost_until_now + stepCost + heuristic(successor), which is also the cost
\* the node carries on.
\* The action trace extended in place, so that the successors of one node
\* share it.
RECURSIVE PushSuccessorsShared(_, _, _, _, _, _)
PushSuccessorsShared(ag, game_state, q, node, succs, i) ==
    IF i > Len(succs) THEN q
    ELSE LET s == succs[i]
             priority == node.cost + s.stepCost + heuristic(ag, s.pos, game_state)
             item == [pos |-> s.pos,
                      actions |-> node.actions \o [j \in 1..i |-> succs[j].action],
                      cost |-> priority]
         IN  PushSuccessorsShared(ag, game_state, PQUpdate(q, item, priority), node, succs, i + 1)

RECURSIVE PushSuccessors(_, _, _, _, _, _)
PushSuccessors(ag, game_state, q, node, succs, i) ==
    IF i > Len(succs) THEN q
    ELSE LET s == succs[i]
             priority == node.cost + s.stepCost + heuristic(ag, s.pos, game_state)
             item == [pos |-> s.pos, actions |-> Append(node.actions, s.action),
                      cost |-> priority]
         IN  PushSuccessors(ag, game_state, PQUpdate(q, item, priority), node, succs, i + 1)

\* AStarStep with a node whose position is visited left on the frontier.
AStarStepKeepsVisited(ag, game_state, food_position, st) ==
    IF st.heap = {}
    THEN [st EXCEPT !.status = "nopath"]
    ELSE LET e == HeapMin(st.heap)
             node == e.item
             rest == st.heap \ {e}
         IN  IF node.pos \in st.visited
             THEN st
             ELSE IF node.pos = food_position
             THEN [st EXCEPT !.heap = rest, !.status = "found",
                             !.pos = node.pos, !.actions = node.actions]
             ELSE LET q == PushSuccessors(ag, game_state,
                                          [heap |-> rest, count |-> st.count], node,
                                          SuccessorStates(ag, game_state, node.pos), 1)
                  IN  [st EXCEPT !.heap = q.heap, !.count = q.count,
                                 !.visited = @ \cup {node.pos}]

\* One pass of the while loop (lines 39-70), or the return of line 73 when
\* the frontier is empty.
AStarStep(ag, game_state, food_position, st) ==
    IF st.heap = {}
    THEN [st EXCEPT !.status = "nopath"]
    ELSE LET e == HeapMin(st.heap)
             node == e.item
             rest == st.heap \ {e}
         IN  IF node.pos \in st.visited
             THEN [st EXCEPT !.heap = rest]
             ELSE IF node.pos = food_position
             THEN [st EXCEPT !.heap = rest, !.status = "found",
                             !.pos = node.pos, !.actions = node.actions]
             ELSE LET q == PushSuccessors(ag, game_state,
                                          [heap |-> rest, count |-> st.count], node,
                                          SuccessorStates(ag, game_state, node.pos), 1)
                  IN  [st EXCEPT !.heap = q.heap, !.count = q.count,
                                 !.visited = @ \cup {node.pos}]

RECURSIVE AStarRun(_, _, _, _)
AStarRun(ag, game_state, food_position, st) ==
    IF st.status # "running" THEN st
    ELSE AStarRun(ag, game_state, food_position,
                  AStarStep(ag, game_state, food_position, st))

\* aStarSearch: the run to its end.  status "found" is the return of line 45
\* (pos, actions); status "nopath" is the return [] of line 73.
aStarSearch(ag, initial_position, food_position, game_state) ==
    AStarRun(ag, game_state, food_position, AStarInit(initial_position))

-----------------------------------------------------------------------------
(* shared.avoid_enemy_collision.                                           *)

RemoveAt(list, i) == SubSeq(list, 1, i - 1) \o SubSeq(list, i + 1, Len(list))

\* Lines 132-142: the legal actions but Stop, each with the cell it leads to
\* from current_pos.
PossibleActionsAndPositions(ag, current_pos, game_state) ==
    LET legal == get_legal_actions(ag, game_state)
        cardinal(a) == a \in Moves
        acts == SelectSeq(legal, cardinal)
    IN  [i \in 1..Len(acts) |-> [action |-> acts[i], position |-> Step(current_pos, acts[i])]]

\* Lines 149-151: the for loop over the list, which removes from the list it
\* walks: after a removal the walk's index moves on past the element that
\* took the removed one's place.
RECURSIVE RemoveColliding(_, _, _, _)
RemoveColliding(ag, list, i, enemy_position) ==
    IF i > Len(list) THEN list
    ELSE IF get_maze_distance(ag, list[i].position, enemy_position) <= 1
    THEN RemoveColliding(ag, RemoveAt(list, i), i + 1, enemy_position)
    ELSE RemoveColliding(ag, list, i + 1, enemy_position)

\* Lines 145-151: the loop over the opponents.
RECURSIVE FilterByEnemies(_, _, _, _)
FilterByEnemies(ag, list, k, game_state) ==
    IF k > Len(game_state.enemies) THEN list
    ELSE LET enemy_position == game_state.enemies[k]
         IN  IF enemy_position # None /\ ~in_our_field(ag, enemy_position, game_state)
             THEN FilterByEnemies(ag, RemoveColliding(ag, list, 1, enemy_position),
                                  k + 1, game_state)
             ELSE FilterByEnemies(ag, list, k + 1, game_state)

\* The whole function; rnd stands for the draw of random.choice.  A
\* next_action that is no cardinal move leaves a_star_pos unbound, and line
\* 156 then raises.
avoid_enemy_collision(ag, current_pos, next_action, game_state, rnd) ==
    LET left == FilterByEnemies(ag, PossibleActionsAndPositions(ag, current_pos, game_state),
                                1, game_state)
        a_star_pos == Step(current_pos, next_action)
    IN  IF Len(left) > 0
        THEN IF next_action \notin Moves
             THEN "UnboundLocalError"
             ELSE IF \E i \in 1..Len(left) : left[i].position = a_star_pos
             THEN (left[CHOOSE i \in 1..Len(left) : left[i].position = a_star_pos]).action
             ELSE left[(rnd % Len(left)) + 1].action
        ELSE next_action

-----------------------------------------------------------------------------
(* shared.py: food lists, the border column, the closest-food search.      *)

\* The order of the double loop of get_food_positions_*: row by row (y),
\* each row by x.
CellLess(a, b) == a[2] < b[2] \/ (a[2] = b[2] /\ a[1] < b[1])

RECURSIVE SortCells(_)
SortCells(S) ==
    IF S = {} THEN <<>>
    ELSE LET m == CHOOSE a \in S : \A b \in S \ {a} : CellLess(a, b)
         IN  <<m>> \o SortCells(S \ {m})

\* get_capsules / get_capsules_you_are_defending: the capsules left, as a list.
get_capsules(ag, game_state) == SortCells(game_state.capsE)

get_capsules_you_are_defending(ag, game_state) == SortCells(game_state.capsO)

\* The food grid cells set, then the capsules.
get_food_positions_enemy(ag, game_state) ==
    SortCells(game_state.foodE) \o get_capsules(ag, game_state)

get_food_positions_ours(ag, game_state) ==
    SortCells(game_state.foodO) \o get_capsules_you_are_defending(ag, game_state)

\* The open cells of column col, for y in range(1, height).
get_column_slice(col, game_state) ==
    SortCells({<<col, y>> : y \in 1..(Layout(game_state.lay).height - 1)}
                \cap Layout(game_state.lay).open)

\* The open cell of our border column closest to the agent, the lowest of
\* the closest; None when the column is all wall.
get_closest_point_in_our_field(ag, game_state) ==
    LET x == IF ag.red THEN (Layout(game_state.lay).width \div 2) - 1
                       ELSE Layout(game_state.lay).width \div 2
        column == get_column_slice(x, game_state)
        d(i) == get_maze_distance(ag, game_state.pos, column[i])
        best == {i \in 1..Len(column) : d(i) < NO_DISTANCE /\ \A j \in 1..Len(column) : d(i) <= d(j)}
    IN  IF best = {} THEN None
        ELSE column[CHOOSE i \in best : \A j \in best : i <= j]

\* sorted(distances_array, key=distance): a stable sort.
RECURSIVE InsertByDistance(_, _)
InsertByDistance(sorted, e) ==
    IF sorted = <<>> THEN <<e>>
    ELSE IF e.d < Head(sorted).d THEN <<e>> \o sorted
    ELSE <<Head(sorted)>> \o InsertByDistance(Tail(sorted), e)

RECURSIVE SortByDistance(_)
SortByDistance(list) ==
    IF list = <<>> THEN <<>>
    ELSE InsertByDistance(SortByDistance(SubSeq(list, 1, Len(list) - 1)), list[Len(list)])

\* a_star_to_food_position: the closest of the listed positions (or one of
\* the three closest, drawn by rnd) seen from initial_position, and the search
\* to it from the agent's own position.  foods is what food_positions_function
\* returns and initial_position what initial_position_function returns (the
\* agent's position when it is None).  err names the exception raised:
\* IndexError on an empty list, ValueError on unpacking the [] of a failed
\* search.
\* Lines 224-227: the destination, one of the (at most) three closest when
\* randomize is set.
MinFoodPosition(distances_array, randomize, rnd) ==
    IF randomize
    THEN distances_array[(rnd % (IF Len(distances_array) < 3
                                 THEN Len(distances_array) ELSE 3)) + 1].pos
    ELSE distances_array[1].pos

\* Lines 227-233, what the caller gets: n is the number of listed positions,
\* r the search.
AStarToFoodResult(n, r) ==
    IF n = 0
    THEN [err |-> "IndexError", destination |-> None, next_actions |-> <<>>]
    ELSE IF r.status = "nopath"
    THEN [err |-> "ValueError", destination |-> None, next_actions |-> <<>>]
    ELSE [err |-> "none", destination |-> r.pos, next_actions |-> r.actions]

AStarToClosest(ag, game_state, distances_array, randomize, rnd) ==
    AStarToFoodResult(Len(distances_array),
                      aStarSearch(ag, game_state.pos,
                                  MinFoodPosition(distances_array, randomize, rnd),
                                  game_state))

a_star_to_food_position(ag, game_state, foods, randomize, initial_position, rnd) ==
    AStarToClosest(ag, game_state,
                   SortByDistance([i \in 1..Len(foods) |->
                       [d |-> get_maze_distance(ag, initial_position, foods[i]),
                        pos |-> foods[i]]]),
                   randomize, rnd)

-----------------------------------------------------------------------------
(* attackAgent.py.  A decision is a record: the agent after it (ag), what  *)
(* it returns (ret: a move, or the exception it raises) and the branch of  *)
(* choose_action taken.                                                    *)

Out(ag, r, branch) == [ag |-> ag, ret |-> r, branch |-> branch]

\* The class attributes (lines 58-76) and register_initial_state (78-83).
AttackAgentInit(red, game_state) ==
    LET ag == [role |-> "attack", red |-> red, lay |-> game_state.lay]
    IN  [role |-> "attack", red |-> red, lay |-> game_state.lay,
         food_in_last_turn |-> Len(get_food_positions_enemy(ag, game_state)),
         food_eaten |-> 0,
         capsules_in_last_turn |-> Len(get_capsules(ag, game_state)),
         turns_with_capsule_effect |-> 0,
         first_actions |-> <<>>,
         already_randomized |-> FALSE,
         turn_counter |-> 0,
         has_fled |-> <<>>,
         fleeing_point |-> None,
         turns_has_to_flee |-> 0,
         last_fled_turn_checked |-> 0]

\* update_counters, lines 105-107.
AttackUpdateTurn(ag) ==
    [ag EXCEPT !.turn_counter = @ + 1,
               !.turns_has_to_flee = IF @ > 0 THEN @ - 1 ELSE @]

\* update_counters, lines 109-116.
AttackUpdateCapsule(ag, game_state) ==
    LET a1 == [ag EXCEPT !.turns_with_capsule_effect = IF @ > 0 THEN @ - 1 ELSE @]
    IN  IF a1.capsules_in_last_turn > Len(get_capsules(ag, game_state))
        THEN [a1 EXCEPT !.turns_with_capsule_effect = ATT_CAPSULE_EFFECT_DURATION,
                        !.capsules_in_last_turn = Len(get_capsules(ag, game_state))]
        ELSE a1

\* AttackUpdateHome without lines 123-127: nothing is reset on the spawn.
AttackUpdateHomeNoReset(ag, game_state) ==
    IF in_our_field(ag, get_our_position(ag, game_state), game_state)
    THEN [ag EXCEPT !.food_eaten = 0]
    ELSE [ag EXCEPT !.first_actions = <<>>]

\* update_counters, lines 118-127.
AttackUpdateHome(ag, game_state) ==
    LET a1 == IF in_our_field(ag, get_our_position(ag, game_state), game_state)
              THEN [ag EXCEPT !.food_eaten = 0]
              ELSE [ag EXCEPT !.first_actions = <<>>]
    IN  IF a1.already_randomized
           /\ get_our_position(ag, game_state) = get_my_initial_position(ag, game_state)
        THEN [a1 EXCEPT !.first_actions = <<>>, !.turns_has_to_flee = 0]
        ELSE a1

\* update_counters, lines 129-133.
AttackUpdateFood(ag, game_state) ==
    LET food_in_current_turn == Len(get_food_positions_enemy(ag, game_state))
    IN  IF food_in_current_turn < ag.food_in_last_turn
        THEN [ag EXCEPT !.food_in_last_turn = food_in_current_turn,
                        !.food_eaten = @ + 1]
        ELSE ag

AttackAgent_update_counters(ag, game_state) ==
    AttackUpdateFood(
        AttackUpdateHome(
            AttackUpdateCapsule(AttackUpdateTurn(ag), game_state), game_state), game_state)

Last(seq, k) == seq[Len(seq) + 1 - k]

\* has_been_fleeing_too_much: the answer and the agent after it.
has_been_fleeing_too_much(ag, game_state) ==
    IF /\ in_our_field(ag, get_our_position(ag, game_state), game_state)
       /\ Len(ag.has_fled) > 4
       /\ Last(ag.has_fled, 1) # ag.last_fled_turn_checked
    THEN [ag |-> [ag EXCEPT !.last_fled_turn_checked = Last(ag.has_fled, 1)],
          result |-> /\ Last(ag.has_fled, 1) - Last(ag.has_fled, 2) <= TURNS_FLEEING_TOO_MUCH
                     /\ Last(ag.has_fled, 2) - Last(ag.has_fled, 3) <= TURNS_FLEEING_TOO_MUCH]
    ELSE [ag |-> ag, result |-> FALSE]

\* Lines 173-180: the direction of an adjacent cell.
DirectionTo(pos, food_pos) ==
    CHOOSE a \in Moves : Step(pos, a) = food_pos

\* decide_action_return, lines 164-188: r is the search to the border, near
\* the indices of the enemy food one step away.
ReturnDecision(ag, game_state, rnd, pos, r, has_to_flee, foods, near) ==
    IF r.status = "nopath"
    THEN Out(ag, "ValueError", "return")
    ELSE IF ~has_to_flee /\ near # {}
    THEN Out(ag, DirectionTo(pos, foods[CHOOSE i \in near : \A j \in near : i <= j]),
             "return")
    ELSE IF Len(r.actions) = 0
    THEN Out(ag, "Stop", "return")
    ELSE Out(ag, avoid_enemy_collision(ag, pos, r.actions[1], game_state, rnd.alt),
             "return")

ReturnFrom(ag, game_state, rnd, pos, foods) ==
    ReturnDecision(ag, game_state, rnd, pos,
                   aStarSearch(ag, pos, get_closest_point_in_our_field(ag, game_state),
                               game_state),
                   \E e \in VisibleEnemies(game_state) :
                       get_maze_distance(ag, pos, e) < ATT_DISTANCE_FROM_ENEMY_TO_FLEE,
                   foods,
                   {i \in 1..Len(foods) : get_maze_distance(ag, pos, foods[i]) = 1})

\* decide_action_return
decide_action_return(ag, game_state, rnd) ==
    ReturnFrom(ag, game_state, rnd, get_our_position(ag, game_state),
               get_food_positions_enemy(ag, game_state))

\* get_fleeing_point, lines 252-262: the end of the column farther from the
\* agent.
FartherEnd(ag, pos, valid_positions_in_column) ==
    IF get_maze_distance(ag, pos, valid_positions_in_column[1])
         > get_maze_distance(ag, pos,
                             valid_positions_in_column[Len(valid_positions_in_column)])
    THEN valid_positions_in_column[1]
    ELSE valid_positions_in_column[Len(valid_positions_in_column)]

FleeingPointOf(ag, game_state, f) ==
    IF f.err # "none"
    THEN [err |-> f.err, point |-> None]
    ELSE [err |-> "none",
          point |-> FartherEnd(ag, get_our_position(ag, game_state),
                               get_column_slice(f.destination[1], game_state))]

\* get_fleeing_point: the end of the column of our food closest to the
\* enemy's spawn that is farther from the agent.
get_fleeing_point(ag, game_state) ==
    FleeingPointOf(ag, game_state,
                   a_star_to_food_position(ag, game_state,
                                           get_food_positions_ours(ag, game_state), FALSE,
                                           get_initial_enemy_position(ag, game_state), 0))

\* Lines 216-220 and 232-236: the first action of the search to the fleeing
\* point, unfiltered.
FirstFleeingAction(ag, r, branch) ==
    IF r.status = "nopath" THEN Out(ag, "ValueError", branch)
    ELSE IF Len(r.actions) = 0 THEN Out(ag, "IndexError", branch)
    ELSE Out(ag, r.actions[1], branch)

FleeTowardsPoint(ag, game_state, branch) ==
    FirstFleeingAction(ag, aStarSearch(ag, get_our_position(ag, game_state),
                                       ag.fleeing_point, game_state), branch)

\* Lines 214 and 228-230: a new fleeing point fp, and the turns to flee.
FleeToNewPoint(ag, game_state, fp, turns, branch) ==
    IF fp.err # "none" THEN Out(ag, fp.err, branch)
    ELSE FleeTowardsPoint([ag EXCEPT !.fleeing_point = fp.point,
                                     !.turns_has_to_flee = turns],
                          game_state, branch)

\* decide_action_attack, lines 197-202: the opening is planned once; f is
\* the search to one of the three closest foods.
PlannedOpening(ag, f) ==
    [err |-> f.err,
     ag |-> IF f.err = "none"
            THEN [ag EXCEPT !.already_randomized = TRUE, !.first_actions = f.next_actions]
            ELSE [ag EXCEPT !.already_randomized = TRUE]]

AttackPlanOpening(ag, game_state, rnd) ==
    IF Len(ag.first_actions) = 0 /\ ~ag.already_randomized
    THEN PlannedOpening(ag, a_star_to_food_position(
                                ag, game_state, get_food_positions_enemy(ag, game_state),
                                TRUE, get_our_position(ag, game_state), rnd.top))
    ELSE [err |-> "none", ag |-> ag]

\* decide_action_attack, lines 238-241: f is the search to the closest food.
GoToClosestFood(ag, game_state, f, rnd, branch) ==
    IF f.err # "none" THEN Out(ag, f.err, branch)
    ELSE IF Len(f.next_actions) = 0 THEN Out(ag, "IndexError", branch)
    ELSE Out(ag, avoid_enemy_collision(ag, get_our_position(ag, game_state),
                                       f.next_actions[1], game_state, rnd.alt),
             branch)

\* decide_action_attack, lines 222-241: h is what has_been_fleeing_too_much
\* answers.
AttackAfterFleeCheck(h, game_state, rnd, branch) ==
    IF h.result
    THEN IF Len(get_food_positions_ours(h.ag, game_state)) = 0
         THEN Out(h.ag, "Stop", branch)
         ELSE FleeToNewPoint(h.ag, game_state, get_fleeing_point(h.ag, game_state),
                             TURNS_HAS_TO_FLEE, branch)
    ELSE GoToClosestFood(h.ag, game_state,
                         a_star_to_food_position(
                             h.ag, game_state, get_food_positions_enemy(h.ag, game_state),
                             FALSE, get_our_position(h.ag, game_state), 0),
                         rnd, branch)

AttackAfterOpening(ag, game_state, rnd, branch) ==
    AttackAfterFleeCheck(has_been_fleeing_too_much(ag, game_state), game_state, rnd, branch)

\* decide_action_attack, lines 204-241: o is the opening planned.
AttackWithOpening(o, pos, game_state, rnd, branch) ==
    IF o.err # "none" THEN Out(o.ag, o.err, branch)
    ELSE IF Len(o.ag.first_actions) > 0
    THEN Out([o.ag EXCEPT !.first_actions = Tail(@)],
             avoid_enemy_collision(o.ag, pos, Head(o.ag.first_actions), game_state, rnd.alt),
             branch)
    ELSE IF o.ag.turns_has_to_flee > 0
    THEN IF o.ag.fleeing_point = pos
         THEN FleeToNewPoint(o.ag, game_state, get_fleeing_point(o.ag, game_state),
                             o.ag.turns_has_to_flee, branch)
         ELSE FleeTowardsPoint(o.ag, game_state, branch)
    ELSE AttackAfterOpening(o.ag, game_state, rnd, branch)

\* decide_action_attack
decide_action_attack(ag, game_state, rnd, branch) ==
    AttackWithOpening(AttackPlanOpening(ag, game_state, rnd),
                      get_our_position(ag, game_state), game_state, rnd, branch)

\* decide_action_in_enemy_field, lines 280-292: a1 is the agent with the turn
\* appended to has_fled, r its search to the border.
FleeHome(a1, pos, r, game_state, rnd) ==
    IF r.status = "nopath" THEN Out(a1, "ValueError", "enemy_field")
    ELSE IF Len(r.actions) = 0 THEN Out(a1, "IndexError", "enemy_field")
    ELSE Out(a1, avoid_enemy_collision(a1, pos, r.actions[1], game_state, rnd.alt),
             "enemy_field")

\* decide_action_in_enemy_field
decide_action_in_enemy_field(ag, game_state, rnd) ==
    IF /\ ag.turns_with_capsule_effect = 0
       /\ \E e \in VisibleEnemies(game_state) :
              /\ ~in_our_field(ag, e, game_state)
              /\ get_maze_distance(ag, get_our_position(ag, game_state), e)
                     < ATT_DISTANCE_FROM_ENEMY_TO_FLEE
    THEN FleeHome([ag EXCEPT !.has_fled = Append(@, ag.turn_counter)],
                  get_our_position(ag, game_state),
                  aStarSearch(ag, get_our_position(ag, game_state),
                              get_closest_point_in_our_field(ag, game_state), game_state),
                  game_state, rnd)
    ELSE decide_action_attack(ag, game_state, rnd, "enemy_field")

\* AttackDecide with the comparison of line 304 off by one: the attacker
\* returns with five foods eaten.
AttackDecideAtThreshold(a1, game_state, rnd) ==
    IF \/ a1.food_eaten >= FOOD_EATEN_TO_RETURN
       \/ Len(get_food_positions_enemy(a1, game_state)) = 0
    THEN decide_action_return(a1, game_state, rnd)
    ELSE IF in_our_field(a1, get_our_position(a1, game_state), game_state)
    THEN decide_action_attack(a1, game_state, rnd, "attack_home")
    ELSE decide_action_in_enemy_field(a1, game_state, rnd)

\* choose_action, lines 304-311: a1 is the agent after update_counters.
AttackDecide(a1, game_state, rnd) ==
    IF \/ a1.food_eaten > FOOD_EATEN_TO_RETURN
       \/ Len(get_food_positions_enemy(a1, game_state)) = 0
    THEN decide_action_return(a1, game_state, rnd)
    ELSE IF in_our_field(a1, get_our_position(a1, game_state), game_state)
    THEN decide_action_attack(a1, game_state, rnd, "attack_home")
    ELSE decide_action_in_enemy_field(a1, game_state, rnd)

\* AttackAgent.choose_action
AttackAgent_choose_action(ag, game_state, rnd) ==
    AttackDecide(AttackAgent_update_counters(ag, game_state), game_state, rnd)

-----------------------------------------------------------------------------
(* defendAgent.py.                                                         *)

SeqToSet(seq) == {seq[i] : i \in 1..Len(seq)}

\* The class attributes (lines 31-46) and register_initial_state (66-70).
DefendAgentInit(red, game_state) ==
    LET ag == [role |-> "defend", red |-> red, lay |-> game_state.lay]
    IN  [role |-> "defend", red |-> red, lay |-> game_state.lay,
         initial_actions |-> <<>>,
         initial_goal |-> None,
         last_patrolled_point |-> None,
         patrol_point_1 |-> None,
         patrol_point_2 |-> None,
         food_positions_in_last_turn |-> SeqToSet(get_food_positions_ours(ag, game_state)),
         eaten_food_position |-> None,
         capsules_in_last_turn |-> Len(get_capsules_you_are_defending(ag, game_state)),
         turns_with_capsule_effect |-> 0]

\* Lines 101-102, 150-152, 160-162, 192-194: a search r and its first action.
FirstAction(ag, r, branch) ==
    IF r.status = "nopath" THEN Out(ag, "ValueError", branch)
    ELSE IF Len(r.actions) = 0 THEN Out(ag, "IndexError", branch)
    ELSE Out(ag, r.actions[1], branch)

FirstActionTo(ag, game_state, goal, branch) ==
    FirstAction(ag, aStarSearch(ag, get_our_position(ag, game_state), goal, game_state),
                branch)

\* do_vertical_patrol, lines 79-98: the goal of this turn's patrol.
PatrolGoal(ag, game_state) ==
    IF get_maze_distance(ag, get_our_position(ag, game_state), ag.patrol_point_1) = 0
    THEN ag.patrol_point_2
    ELSE IF get_maze_distance(ag, get_our_position(ag, game_state), ag.patrol_point_2) = 0
    THEN ag.patrol_point_1
    ELSE IF ag.last_patrolled_point = ag.patrol_point_1
    THEN ag.patrol_point_2
    ELSE IF ag.last_patrolled_point = ag.patrol_point_2
    THEN ag.patrol_point_1
    ELSE IF get_maze_distance(ag, get_our_position(ag, game_state), ag.patrol_point_1)
              < get_maze_distance(ag, get_our_position(ag, game_state), ag.patrol_point_2)
    THEN ag.patrol_point_1
    ELSE ag.patrol_point_2

\* PatrolWith without lines 87 and 91: the endpoint reached is not
\* remembered.
PatrolWithoutMemory(ag, game_state, distance_to_pp_1, distance_to_pp_2, branch) ==
    IF distance_to_pp_1 = 0
    THEN FirstActionTo(ag, game_state, ag.patrol_point_2, branch)
    ELSE IF distance_to_pp_2 = 0
    THEN FirstActionTo(ag, game_state, ag.patrol_point_1, branch)
    ELSE IF ag.last_patrolled_point = ag.patrol_point_1
    THEN FirstActionTo(ag, game_state, ag.patrol_point_2, branch)
    ELSE IF ag.last_patrolled_point = ag.patrol_point_2
    THEN FirstActionTo(ag, game_state, ag.patrol_point_1, branch)
    ELSE FirstActionTo(ag, game_state,
                       IF distance_to_pp_1 < distance_to_pp_2
                       THEN ag.patrol_point_1 ELSE ag.patrol_point_2,
                       branch)

\* do_vertical_patrol, lines 79-102, with the two distances measured.
PatrolWith(ag, game_state, distance_to_pp_1, distance_to_pp_2, branch) ==
    IF distance_to_pp_1 = 0
    THEN FirstActionTo([ag EXCEPT !.last_patrolled_point = ag.patrol_point_1],
                       game_state, ag.patrol_point_2, branch)
    ELSE IF distance_to_pp_2 = 0
    THEN FirstActionTo([ag EXCEPT !.last_patrolled_point = ag.patrol_point_2],
                       game_state, ag.patrol_point_1, branch)
    ELSE IF ag.last_patrolled_point = ag.patrol_point_1
    THEN FirstActionTo(ag, game_state, ag.patrol_point_2, branch)
    ELSE IF ag.last_patrolled_point = ag.patrol_point_2
    THEN FirstActionTo(ag, game_state, ag.patrol_point_1, branch)
    ELSE FirstActionTo(ag, game_state,
                       IF distance_to_pp_1 < distance_to_pp_2
                       THEN ag.patrol_point_1 ELSE ag.patrol_point_2,
                       branch)

\* do_vertical_patrol without lines 73-74: get_maze_distance is asked for
\* the distance to None and raises.
PatrolUnguarded(ag, game_state, branch) ==
    IF ag.patrol_point_1 = None /\ ag.patrol_point_2 = None
    THEN Out(ag, "TypeError", branch)
    ELSE PatrolWith(ag, game_state,
                    get_maze_distance(ag, get_our_position(ag, game_state),
                                      ag.patrol_point_1),
                    get_maze_distance(ag, get_our_position(ag, game_state),
                                      ag.patrol_point_2),
                    branch)

\* do_vertical_patrol
do_vertical_patrol(ag, game_state, branch) ==
    IF ag.patrol_point_1 = None /\ ag.patrol_point_2 = None
    THEN Out(ag, "Stop", branch)
    ELSE PatrolWith(ag, game_state,
                    get_maze_distance(ag, get_our_position(ag, game_state),
                                      ag.patrol_point_1),
                    get_maze_distance(ag, get_our_position(ag, game_state),
                                      ag.patrol_point_2),
                    branch)

\* calculate_patrol_points, lines 106-122: f is the search to our food
\* closest to the enemy's spawn (the search of line 109 is the same search
\* again), and the column of that food.
PatrolPointsOf(ag, f, valid_positions_in_column) ==
    IF f.err # "none"
    THEN [err |-> f.err, ag |-> ag]
    ELSE [err |-> "none",
          ag |-> [ag EXCEPT
              !.initial_goal = f.destination,
              !.initial_actions = f.next_actions,
              !.patrol_point_1 = valid_positions_in_column[1],
              !.patrol_point_2 = valid_positions_in_column[Len(valid_positions_in_column)]]]

PatrolPointsFrom(ag, game_state, f) ==
    PatrolPointsOf(ag, f, get_column_slice(f.destination[1], game_state))

\* calculate_patrol_points: the agent after it, and the exception it raises
\* if any.
calculate_patrol_points(ag, game_state) ==
    IF Len(get_food_positions_ours(ag, game_state)) > 0
    THEN PatrolPointsFrom(ag, game_state,
                          a_star_to_food_position(
                              ag, game_state, get_food_positions_ours(ag, game_state), FALSE,
                              get_initial_enemy_position(ag, game_state), 0))
    ELSE [err |-> "none", ag |-> ag]

\* update_counters, lines 128-134; rnd stands for the element that
\* list(foods_eaten)[0] is.
DefendUpdateFood(ag, game_state, rnd) ==
    LET food_positions_in_this_turn == SeqToSet(get_food_positions_ours(ag, game_state))
        foods_eaten == SortCells(ag.food_positions_in_last_turn \ food_positions_in_this_turn)
        a1 == [ag EXCEPT !.food_positions_in_last_turn = food_positions_in_this_turn]
    IN  IF Len(foods_eaten) > 0
        THEN [a1 EXCEPT !.eaten_food_position = foods_eaten[(rnd % Len(foods_eaten)) + 1]]
        ELSE a1

\* DefendUpdateCapsule with the comparison of line 137 widened to >=: the
\* counter is armed again on every turn the capsule count has not grown.
DefendUpdateCapsuleRearmed(ag, game_state) ==
    IF ag.capsules_in_last_turn >= Len(get_capsules_you_are_defending(ag, game_state))
    THEN [ag EXCEPT !.turns_with_capsule_effect = DEF_CAPSULE_EFFECT_DURATION,
                    !.capsules_in_last_turn =
                        Len(get_capsules_you_are_defending(ag, game_state))]
    ELSE IF ag.turns_with_capsule_effect > 0
    THEN [ag EXCEPT !.turns_with_capsule_effect = @ - 1]
    ELSE ag

\* update_counters, lines 136-144.
DefendUpdateCapsule(ag, game_state) ==
    IF ag.capsules_in_last_turn > Len(get_capsules_you_are_defending(ag, game_state))
    THEN [ag EXCEPT !.turns_with_capsule_effect = DEF_CAPSULE_EFFECT_DURATION,
                    !.capsules_in_last_turn =
                        Len(get_capsules_you_are_defending(ag, game_state))]
    ELSE IF ag.turns_with_capsule_effect > 0
    THEN [ag EXCEPT !.turns_with_capsule_effect = @ - 1]
    ELSE ag

\* update_counters, lines 128-144: c is the agent after lines 125-126.
DefendCountersAfter(c, game_state, rnd) ==
    IF c.err # "none" THEN c
    ELSE [err |-> "none",
          ag |-> DefendUpdateCapsule(DefendUpdateFood(c.ag, game_state, rnd.eat),
                                     game_state)]

DefendAgent_update_counters(ag, game_state, rnd) ==
    DefendCountersAfter(IF ag.initial_goal = None
                        THEN calculate_patrol_points(ag, game_state)
                        ELSE [err |-> "none", ag |-> ag],
                        game_state, rnd)

\* decide_action_enemy_close_in_our_field with the comparison of line 156
\* turned round: the scared defender pursues the enemy it cannot outlast.
PursueWhenOutlasted(ag, enemy_position, game_state) ==
    IF ag.turns_with_capsule_effect = 0
    THEN FirstActionTo(ag, game_state, enemy_position, "pursue")
    ELSE IF ag.turns_with_capsule_effect
              > get_maze_distance(ag, get_our_position(ag, game_state), enemy_position)
    THEN FirstActionTo(ag, game_state, enemy_position, "pursue")
    ELSE do_vertical_patrol(ag, game_state, "patrol_fallback")

\* decide_action_enemy_close_in_our_field with the comparison of line 156
\* off by one: a defender as far away as the effect lasts pursues too.
PursueWhenLevel(ag, enemy_position, game_state) ==
    IF ag.turns_with_capsule_effect = 0
    THEN FirstActionTo(ag, game_state, enemy_position, "pursue")
    ELSE IF ag.turns_with_capsule_effect
              <= get_maze_distance(ag, get_our_position(ag, game_state), enemy_position)
    THEN FirstActionTo(ag, game_state, enemy_position, "pursue")
    ELSE do_vertical_patrol(ag, game_state, "patrol_fallback")

\* decide_action_enemy_close_in_our_field
decide_action_enemy_close_in_our_field(ag, enemy_position, game_state) ==
    IF ag.turns_with_capsule_effect = 0
    THEN FirstActionTo(ag, game_state, enemy_position, "pursue")
    ELSE IF ag.turns_with_capsule_effect
              < get_maze_distance(ag, get_our_position(ag, game_state), enemy_position)
    THEN FirstActionTo(ag, game_state, enemy_position, "pursue")
    ELSE do_vertical_patrol(ag, game_state, "patrol_fallback")

\* Lines 179-184: the first opponent in sight inside our field.
EnemiesInOurField(ag, game_state) ==
    {k \in 1..Len(game_state.enemies) :
        /\ game_state.enemies[k] # None
        /\ in_our_field(ag, game_state.enemies[k], game_state)}

\* DefendReact with the test of line 188 loosened: the recorded loss is
\* dropped one step away from it.
DefendReactClearsNearby(a1, game_state, seen) ==
    IF seen # {}
    THEN decide_action_enemy_close_in_our_field(
             a1, game_state.enemies[CHOOSE k \in seen : \A j \in seen : k <= j], game_state)
    ELSE IF a1.eaten_food_position # None
    THEN IF get_maze_distance(a1, get_our_position(a1, game_state),
                              a1.eaten_food_position) > 1
         THEN FirstActionTo(a1, game_state, a1.eaten_food_position, "food_loss")
         ELSE do_vertical_patrol([a1 EXCEPT !.eaten_food_position = None],
                                 game_state, "patrol")
    ELSE do_vertical_patrol(a1, game_state, "patrol")

\* choose_action, lines 179-199: a1 is the agent after update_counters and
\* the opening, seen the opponents in sight inside our field.
DefendReact(a1, game_state, seen) ==
    IF seen # {}
    THEN decide_action_enemy_close_in_our_field(
             a1, game_state.enemies[CHOOSE k \in seen : \A j \in seen : k <= j], game_state)
    ELSE IF a1.eaten_food_position # None
    THEN IF a1.eaten_food_position # get_our_position(a1, game_state)
         THEN FirstActionTo(a1, game_state, a1.eaten_food_position, "food_loss")
         ELSE do_vertical_patrol([a1 EXCEPT !.eaten_food_position = None],
                                 game_state, "patrol")
    ELSE do_vertical_patrol(a1, game_state, "patrol")

\* choose_action, lines 173-199: c is what update_counters leaves.
DefendDecide(c, game_state) ==
    IF c.err # "none" THEN Out(c.ag, c.err, "update")
    ELSE IF Len(c.ag.initial_actions) # 0
    THEN Out([c.ag EXCEPT !.initial_actions = Tail(@)], Head(c.ag.initial_actions),
             "opening")
    ELSE DefendReact(c.ag, game_state, EnemiesInOurField(c.ag, game_state))

\* DefendAgent.choose_action
DefendAgent_choose_action(ag, game_state, rnd) ==
    DefendDecide(DefendAgent_update_counters(ag, game_state, rnd), game_state)

-----------------------------------------------------------------------------
(* A match: the board the engine starts from, the agent set up on it, and  *)
(* the turns.  A scenario is a layout with its spawn points, food and      *)
(* capsules, the agent under observation (its class and team), the cells   *)
(* each opponent may walk (none: that opponent never comes near), whether  *)
(* a team mate may take an enemy-side pellet, and the attacker's turns     *)
(* played.                                                                 *)

\* The variables of a run that is not under way.
NoSearch == [start |-> None, goal |-> None, st |-> AStarInit(None)]

NoAvoid == [next_action |-> "Stop", result |-> "none"]

NoRet == [move |-> "none", branch |-> "none"]

\* The attacker's turns played on a board with opponents that roam, and on
\* a board where nothing moves but the attacker.
MaxTurns == 7

LongTurns == 40

NSEW == <<"North", "South", "East", "West">>

\* The open block, red attacker: pellets and a capsule across the midline,
\* one opponent walking the whole board.
ScenarioBlockAttack ==
    [lay |-> 1, red |-> TRUE, role |-> "attack", order |-> NSEW,
     spawn |-> <<1, 1>>, enemySpawns |-> <<<<4, 2>>, None>>,
     roam |-> <<Rect(1, 4, 1, 2), {}>>,
     foodE |-> {<<3, 2>>, <<4, 1>>}, capsE |-> {<<3, 1>>},
     foodO |-> {<<1, 2>>}, capsO |-> {},
     mate |-> {<<4, 1>>}, turns |-> MaxTurns]

\* The open block, red defender: our pellet and capsule, one opponent
\* walking the whole board.
ScenarioBlockDefend ==
    [lay |-> 1, red |-> TRUE, role |-> "defend", order |-> NSEW,
     spawn |-> <<1, 1>>, enemySpawns |-> <<<<4, 2>>, None>>,
     roam |-> <<Rect(1, 4, 1, 2) \ {<<1, 1>>}, {}>>,
     foodE |-> {<<4, 1>>}, capsE |-> {},
     foodO |-> {<<2, 2>>, <<1, 2>>}, capsO |-> {<<2, 1>>},
     mate |-> {}, turns |-> MaxTurns]

\* The corridor, red attacker: a capsule and six pellets in a row across the
\* midline, the opponent standing on its spawn at the far end.
ScenarioCorridorAttack ==
    [lay |-> 3, red |-> TRUE, role |-> "attack", order |-> NSEW,
     spawn |-> <<7, 1>>, enemySpawns |-> <<<<16, 1>>, None>>,
     roam |-> <<{<<16, 1>>}, {}>>,
     foodE |-> Rect(10, 15, 1, 1), capsE |-> {<<9, 1>>},
     foodO |-> {<<2, 1>>}, capsO |-> {},
     mate |-> {}, turns |-> LongTurns]

\* The hall, red defender: our capsule on the border column, one opponent
\* stepping between its spawn across the border and that column.
ScenarioHallDefend ==
    [lay |-> 4, red |-> TRUE, role |-> "defend", order |-> NSEW,
     spawn |-> <<1, 1>>, enemySpawns |-> <<<<6, 1>>, None>>,
     roam |-> <<{<<6, 1>>, <<5, 1>>, <<5, 2>>}, {}>>,
     foodE |-> {<<8, 1>>}, capsE |-> {},
     foodO |-> {<<1, 2>>}, capsO |-> {<<5, 1>>},
     mate |-> {}, turns |-> MaxTurns]

\* The corridor, blue defender: one pellet of ours, the opponent standing on
\* its spawn at the far end.
ScenarioCorridorDefend ==
    [lay |-> 3, red |-> FALSE, role |-> "defend", order |-> NSEW,
     spawn |-> <<16, 1>>, enemySpawns |-> <<<<1, 1>>, None>>,
     roam |-> <<{<<1, 1>>}, {}>>,
     foodE |-> {<<3, 1>>}, capsE |-> {},
     foodO |-> {<<12, 1>>}, capsO |-> {},
     mate |-> {}, turns |-> MaxTurns]

\* The room with the walled-in cell, red defender: our only pellet lies in
\* the walled-in cell, the opponent stays by its spawn.
ScenarioPocketDefend ==
    [lay |-> 6, red |-> TRUE, role |-> "defend", order |-> NSEW,
     spawn |-> <<1, 1>>, enemySpawns |-> <<<<6, 3>>, None>>,
     roam |-> <<{<<6, 3>>, <<6, 2>>}, {}>>,
     foodE |-> {<<5, 1>>}, capsE |-> {},
     foodO |-> {<<3, 1>>}, capsO |-> {},
     mate |-> {}, turns |-> MaxTurns]

\* The hall, red defender: our capsule on the border column, four steps
\* from the spawn, is where the opening leads; one opponent walks the
\* lower row between its spawn and the middle of our side.
ScenarioHallOpening ==
    [lay |-> 4, red |-> TRUE, role |-> "defend", order |-> NSEW,
     spawn |-> <<1, 1>>, enemySpawns |-> <<<<6, 1>>, None>>,
     roam |-> <<Rect(3, 6, 1, 1), {}>>,
     foodE |-> {<<8, 1>>}, capsE |-> {},
     foodO |-> {<<4, 2>>}, capsO |-> {<<5, 1>>},
     mate |-> {}, turns |-> MaxTurns]

\* The open block, red defender: nothing of ours on the board, one opponent
\* walking the whole board but the defender's spawn.
ScenarioBareDefend ==
    [lay |-> 1, red |-> TRUE, role |-> "defend", order |-> NSEW,
     spawn |-> <<1, 1>>, enemySpawns |-> <<<<4, 2>>, None>>,
     roam |-> <<Rect(1, 4, 1, 2) \ {<<1, 1>>}, {}>>,
     foodE |-> {<<4, 1>>}, capsE |-> {},
     foodO |-> {}, capsO |-> {},
     mate |-> {}, turns |-> MaxTurns]

ScenarioIds == 1..8

\* The hall, red attacker well into a match: a pellet of ours at home, two
\* pellets across the border, one opponent stepping between two cells deep
\* in its own half.
ScenarioHallRally ==
    [lay |-> 4, red |-> TRUE, role |-> "attack", order |-> NSEW,
     spawn |-> <<1, 1>>, enemySpawns |-> <<<<10, 1>>, None>>,
     roam |-> <<{<<10, 1>>, <<9, 1>>}, {}>>,
     foodE |-> {<<6, 2>>, <<7, 1>>}, capsE |-> {},
     foodO |-> {<<2, 2>>}, capsO |-> {},
     mate |-> {}, turns |-> LongTurns]

\* The same with nothing of ours left at home.
ScenarioHallRallyBare ==
    [lay |-> 4, red |-> TRUE, role |-> "attack", order |-> NSEW,
     spawn |-> <<1, 1>>, enemySpawns |-> <<<<10, 1>>, None>>,
     roam |-> <<{<<10, 1>>, <<9, 1>>}, {}>>,
     foodE |-> {<<6, 2>>, <<7, 1>>}, capsE |-> {},
     foodO |-> {}, capsO |-> {},
     mate |-> {}, turns |-> LongTurns]

RallyScenarioIds == {9, 10}

\* The turns each of two attackers of one team plays.
TeamTurns == 8

\* The hall, two red attackers side by side: three pellets across the
\* border, one opponent stepping between two cells deep in its own half.
ScenarioHallTeam ==
    [lay |-> 4, red |-> TRUE, role |-> "attack", order |-> NSEW,
     spawn |-> <<3, 1>>, enemySpawns |-> <<<<10, 1>>, None>>,
     roam |-> <<{<<10, 1>>, <<10, 2>>}, {}>>,
     foodE |-> {<<7, 1>>, <<7, 2>>, <<8, 1>>}, capsE |-> {},
     foodO |-> {<<1, 2>>}, capsO |-> {},
     mate |-> {}, turns |-> TeamTurns]

\* Where the two attackers spawn.
TeamSpawns == <<<<3, 1>>, <<3, 2>>>>

Scenario(k) ==
    CASE k = 1 -> ScenarioBlockAttack
      [] k = 2 -> ScenarioBlockDefend
      [] k = 3 -> ScenarioCorridorAttack
      [] k = 4 -> ScenarioHallDefend
      [] k = 5 -> ScenarioCorridorDefend
      [] k = 6 -> ScenarioPocketDefend
      [] k = 7 -> ScenarioHallOpening
      [] k = 8 -> ScenarioBareDefend
      [] k = 9 -> ScenarioHallRally
      [] k = 10 -> ScenarioHallRallyBare
      [] k = 11 -> ScenarioHallTeam

Manhattan(a, b) ==
    (IF a[1] > b[1] THEN a[1] - b[1] ELSE b[1] - a[1])
    + (IF a[2] > b[2] THEN a[2] - b[2] ELSE b[2] - a[2])

\* get_agent_position of the opponents: the position of an opponent within
\* sight of the agent (the engine's sight range is 5 steps, counted without
\* the walls), None for the others.
Observed(truth, pos) ==
    [k \in 1..Len(truth) |->
        IF truth[k] # None /\ Manhattan(truth[k], pos) <= 5
        THEN truth[k] ELSE None]

InitialGameState(k) ==
    LET sc == Scenario(k)
    IN  [scn |-> k, lay |-> sc.lay, order |-> sc.order,
         pos |-> sc.spawn, spawn |-> sc.spawn,
         enemySpawn |-> sc.enemySpawns[1],
         truth |-> sc.enemySpawns,
         enemies |-> Observed(sc.enemySpawns, sc.spawn),
         foodE |-> sc.foodE, capsE |-> sc.capsE,
         foodO |-> sc.foodO, capsO |-> sc.capsO,
         carried |-> {},
         held |-> {}]

GameInit ==
    /\ phase = "agent"
    /\ ret = NoRet
    /\ srch = NoSearch
    /\ avd = NoAvoid
    /\ \E k \in ScenarioIds :
         /\ gs = InitialGameState(k)
         /\ agent = IF Scenario(k).role = "attack"
                    THEN AttackAgentInit(Scenario(k).red, InitialGameState(k))
                    ELSE DefendAgentInit(Scenario(k).red, InitialGameState(k))

LegalMoves(ag, game_state) ==
    {a \in Moves : ~Walls(game_state.lay, Step(game_state.pos, a))}

\* random.choice draws from at most as many candidates as there are legal
\* moves, and from at most three foods.
AltDraws(game_state) ==
    0..(IF LegalMoves(agent, game_state) = {} THEN 0
        ELSE Cardinality(LegalMoves(agent, game_state)) - 1)

TopDraws == 0..2

EatDraws == 0..1

\* The attacker's turn: choose_action on the current board.
AttackTurn ==
    /\ phase = "agent"
    /\ agent.role = "attack"
    /\ agent.turn_counter < Scenario(gs.scn).turns
    /\ \E top \in (IF agent.already_randomized THEN {0} ELSE TopDraws),
          alt \in AltDraws(gs) :
         LET o == AttackAgent_choose_action(agent, gs, [top |-> top, alt |-> alt])
         IN  /\ agent' = o.ag
             /\ ret' = [move |-> o.ret, branch |-> o.branch]
    /\ phase' = "env"
    /\ UNCHANGED <<gs, srch, avd>>

\* The defender's turn.
DefendTurn ==
    /\ phase = "agent"
    /\ agent.role = "defend"
    /\ \E eat \in EatDraws :
         LET o == DefendAgent_choose_action(agent, gs, [eat |-> eat])
         IN  /\ agent' = o.ag
             /\ ret' = [move |-> o.ret, branch |-> o.branch]
    /\ phase' = "env"
    /\ UNCHANGED <<gs, srch, avd>>

(* The engine between two turns of the agent.  The agent's move is applied *)
(* (an exception or an illegal move ends the match); it eats what lies on  *)
(* an enemy-side cell it enters; each opponent stays or steps to a         *)
(* neighbouring cell of its range; an opponent on our side eats what lies  *)
(* under it; a team mate may take a pellet, and a team mate caught has the  *)
(* pellets it holds put back.  An agent and an opponent on                 *)
(* one cell: the one that is a ghost on its own side wins unless the other *)
(* side's capsule is in effect, and the loser is back on its spawn; the    *)
(* pellets a dying agent carried are back on the board.                    *)

\* Whether the agent loses a meeting on cell p.
WeLose(ag, game_state, p) ==
    IF in_our_field(ag, p, game_state)
    THEN ag.role = "defend" /\ ag.turns_with_capsule_effect > 0
    ELSE ~(ag.role = "attack" /\ ag.turns_with_capsule_effect > 0)

\* The board after the agent and the opponents on its cell have met.
Meet(ag, g) ==
    IF \E k \in 1..Len(g.truth) : g.truth[k] = g.pos
    THEN IF WeLose(ag, g, g.pos)
         THEN [g EXCEPT !.pos = g.spawn, !.foodE = @ \cup g.carried, !.carried = {}]
         ELSE [g EXCEPT !.truth = [k \in 1..Len(g.truth) |->
                                      IF g.truth[k] = g.pos
                                      THEN Scenario(g.scn).enemySpawns[k] ELSE g.truth[k]]]
    ELSE g

\* The agent's move: the step, the meeting, the meal.
AfterMove(ag, g, move) ==
    LET g1 == Meet(ag, [g EXCEPT !.pos = Step(g.pos, move)])
        moved == g1.pos = Step(g.pos, move)
        eaten == IF moved /\ ~in_our_field(ag, g1.pos, g1) THEN {g1.pos} \cap g1.foodE ELSE {}
    IN  IF in_our_field(ag, g1.pos, g1)
        THEN [g1 EXCEPT !.carried = {}]
        ELSE [g1 EXCEPT !.foodE = @ \ eaten,
                        !.capsE = IF moved THEN @ \ {g1.pos} ELSE @,
                        !.carried = @ \cup eaten]

\* Where opponent k may be after its move.
EnemyOptions(g, k) ==
    IF g.truth[k] = None THEN {None}
    ELSE ({g.truth[k]} \cup Neighbours(g.lay, g.truth[k])) \cap Scenario(g.scn).roam[k]

\* The opponents' moves: the meeting, their meal on our side.
AfterEnemies(ag, g, truth) ==
    LET g1 == Meet(ag, [g EXCEPT !.truth = truth])
        onOurSide == {g1.truth[k] : k \in 1..Len(g1.truth)} \ {None}
    IN  [g1 EXCEPT !.foodO = {f \in @ : ~(f \in onOurSide)},
                   !.capsO = {c \in @ : ~(c \in onOurSide)}]

\* The teammate's part of a round: it picks up the pellets taken, or it is
\* caught and the pellets it carries go back on the board; then the agent
\* observes the enemies in sight.
AfterMate(g2, taken, caught) ==
    IF caught
    THEN [g2 EXCEPT !.foodE = @ \cup g2.held,
                    !.held = {},
                    !.enemies = Observed(g2.truth, g2.pos)]
    ELSE [g2 EXCEPT !.foodE = @ \ taken,
                    !.held = @ \cup (taken \cap g2.foodE),
                    !.enemies = Observed(g2.truth, g2.pos)]

EnvStep ==
    /\ phase = "env"
    /\ IF ret.move \in LegalMoves(agent, gs) \cup {"Stop"}
       THEN /\ phase' = "agent"
            /\ ret' = NoRet
            /\ \E truth \in [1..Len(gs.truth) -> Layout(gs.lay).open \cup {None}],
                  taken \in {{}} \cup {{f} : f \in Scenario(gs.scn).mate},
                  caught \in {c \in BOOLEAN : c => gs.held # {}} :
                 /\ \A k \in 1..Len(gs.truth) :
                        truth[k] \in EnemyOptions(AfterMove(agent, gs, ret.move), k)
                 /\ gs' = AfterMate(AfterEnemies(agent, AfterMove(agent, gs, ret.move),
                                                 truth), taken, caught)
       ELSE /\ phase' = "crashed"
            /\ UNCHANGED <<gs, ret>>
    /\ UNCHANGED <<agent, srch, avd>>

Next == AttackTurn \/ DefendTurn \/ EnvStep

Spec == GameInit /\ [][Next]_vars

-----------------------------------------------------------------------------
(* One run of aStarSearch, pass by pass.                                    *)

\* The engine's direction orders tried: the dictionary order of game.py and
\* its sorted order.
Orders == {<<"North", "South", "East", "West">>, <<"East", "North", "South", "West">>}

SearchLayouts == {2}

\* A board for one search: the searching agent's class and team, the layout,
\* the direction order and at most one enemy in sight.
SearchInit ==
    /\ phase = "search"
    /\ ret = NoRet
    /\ avd = NoAvoid
    /\ \E l \in SearchLayouts, role \in {"attack", "defend"}, o \in Orders :
         /\ agent = [role |-> role, red |-> TRUE, lay |-> l]
         /\ \E e \in Layout(l).open \cup {None} :
              /\ role = "defend" => e = None
              /\ gs = [lay |-> l, order |-> o, enemies |-> <<e, None>>]
         /\ \E s \in Layout(l).open, g \in Layout(l).open :
              srch = [start |-> s, goal |-> g, st |-> AStarInit(s)]

SearchStep ==
    /\ phase = "search"
    /\ srch.st.status = "running"
    /\ srch' = [srch EXCEPT !.st = AStarStep(agent, gs, srch.goal, srch.st)]
    /\ UNCHANGED <<gs, agent, ret, phase, avd>>

SpecSearch == SearchInit /\ [][SearchStep]_vars

\* The searches to their end, on the ring and on the room with the
\* walled-in cell, where a goal may be out of reach: the while loop of
\* aStarSearch goes on to its next pass as long as it has one.
TerminationLayouts == {2, 6}

SearchAnywhereInit ==
    /\ phase = "search"
    /\ ret = NoRet
    /\ avd = NoAvoid
    /\ \E l \in TerminationLayouts, role \in {"attack", "defend"} :
         /\ agent = [role |-> role, red |-> TRUE, lay |-> l]
         /\ \E e \in {None} \cup (Layout(l).open \cap {<<5, 1>>}) :
              /\ role = "defend" => e = None
              /\ gs = [lay |-> l, order |-> NSEW, enemies |-> <<e, None>>]
         /\ \E s \in Layout(l).open, g \in Layout(l).open :
              srch = [start |-> s, goal |-> g, st |-> AStarInit(s)]

SpecSearchLive == SearchAnywhereInit /\ [][SearchStep]_vars /\ WF_vars(SearchStep)

-----------------------------------------------------------------------------
(* One call of avoid_enemy_collision.                                      *)

Orderings(S) ==
    {f \in [1..Cardinality(S) -> S] : \A i, j \in 1..Cardinality(S) : i # j => f[i] # f[j]}

AvoidLayouts == {1}

\* The draws of random.choice: an index into at most four candidates.
Draws == 0..3

\* A board for one call: the agent anywhere, a legal move proposed, the legal
\* moves in any order, each of the two opponents out of sight or on a cell
\* other than the agent's.
AvoidInit ==
    /\ phase = "avoid"
    /\ ret = NoRet
    /\ srch = NoSearch
    /\ \E l \in AvoidLayouts, red \in BOOLEAN, o \in Orderings(Moves) :
         /\ agent = [role |-> "attack", red |-> red, lay |-> l]
         /\ \E pos \in Layout(l).open :
              /\ \E e1, e2 \in (Layout(l).open \ {pos}) \cup {None} :
                   gs = [lay |-> l, order |-> o, pos |-> pos, enemies |-> <<e1, e2>>]
              /\ \E a \in Moves :
                   /\ ~Walls(l, Step(pos, a))
                   /\ avd = [next_action |-> a, result |-> "none"]

AvoidStep ==
    /\ phase = "avoid"
    /\ avd.result = "none"
    /\ \E rnd \in Draws :
         avd' = [avd EXCEPT !.result =
                    avoid_enemy_collision(agent, gs.pos, avd.next_action, gs, rnd)]
    /\ UNCHANGED <<gs, agent, ret, phase, srch>>

SpecAvoid == AvoidInit /\ [][AvoidStep]_vars

-----------------------------------------------------------------------------
(* The defender on patrol: turns on a board with its opening walked, no    *)
(* opponent in sight and no food lost.                                     *)

PatrolLayouts == {2, 4, 5}

\* The cells of the agent's home territory.
HomeCells(ag, game_state) ==
    {c \in Layout(game_state.lay).open : in_our_field(ag, c, game_state)}

\* The defender after its opening to the pellet goal: the ends of the
\* pellet's column are its patrol points, last is the end it was on last.
PatrollingDefender(red, game_state, goal, last) ==
    [DefendAgentInit(red, game_state) EXCEPT
        !.initial_goal = goal,
        !.patrol_point_1 = get_column_slice(goal[1], game_state)[1],
        !.patrol_point_2 = get_column_slice(goal[1], game_state)[
                               Len(get_column_slice(goal[1], game_state))],
        !.last_patrolled_point = last]

\* A board with one pellet of ours and the opponents out of sight.
PatrolBoard(l, pos, goal) ==
    [lay |-> l, order |-> NSEW, pos |-> pos, spawn |-> pos, enemySpawn |-> None,
     enemies |-> <<None, None>>, foodO |-> {goal}, capsO |-> {}]

PatrolInit ==
    /\ phase = "patrol"
    /\ ret = NoRet
    /\ srch = NoSearch
    /\ avd = NoAvoid
    /\ \E l \in PatrolLayouts, red \in BOOLEAN :
         \E pos \in HomeCells([red |-> red], [lay |-> l]),
            goal \in HomeCells([red |-> red], [lay |-> l]) :
           /\ gs = PatrolBoard(l, pos, goal)
           /\ \E last \in {None, get_column_slice(goal[1], gs)[1],
                            get_column_slice(goal[1], gs)[Len(get_column_slice(goal[1], gs))]} :
                agent = PatrollingDefender(red, gs, goal, last)

\* What the engine makes of a decision o: the move applied, or the match
\* ended on an exception.
PatrolOutcome(o) ==
    /\ agent' = o.ag
    /\ ret' = [move |-> o.ret, branch |-> o.branch]
    /\ IF o.ret \in LegalMoves(o.ag, gs) \cup {"Stop"}
       THEN gs' = [gs EXCEPT !.pos = Step(gs.pos, o.ret)] /\ phase' = phase
       ELSE gs' = gs /\ phase' = "crashed"

\* One turn: choose_action, and the move applied.
PatrolTurn ==
    /\ phase = "patrol"
    /\ PatrolOutcome(DefendAgent_choose_action(agent, gs, [eat |-> 0]))
    /\ UNCHANGED <<srch, avd>>

SpecPatrol == PatrolInit /\ [][PatrolTurn]_vars

-----------------------------------------------------------------------------
(* has_been_fleeing_too_much asked twice in a row.                         *)

\* The turns an attacker may have fled on, and how many of them it keeps.
MaxFleeTurn == 9

MaxFled == 5

\* The members of a set of turns in increasing order: has_fled is appended
\* the turn counter, which grows by one every turn.
RECURSIVE Increasing(_)
Increasing(S) ==
    IF S = {} THEN <<>>
    ELSE LET m == CHOOSE x \in S : \A y \in S : y <= x
         IN  Append(Increasing(S \ {m}), m)

\* A board with nothing on it, the attacker on cell pos.
FleeBoard(pos) ==
    [lay |-> 1, order |-> NSEW, pos |-> pos, spawn |-> <<1, 1>>, enemySpawn |-> None,
     enemies |-> <<None, None>>, foodE |-> {}, capsE |-> {}, foodO |-> {}, capsO |-> {}]

\* An attacker that has fled on the turns of has_fled and was last answered
\* for the entry checked: line 139 stores only the last entry of a list of
\* five or more.
FledAttacker(game_state, has_fled, checked) ==
    [AttackAgentInit(TRUE, game_state) EXCEPT
        !.already_randomized = TRUE,
        !.turn_counter = IF has_fled = <<>> THEN 1 ELSE Last(has_fled, 1) + 1,
        !.has_fled = has_fled,
        !.last_fled_turn_checked = checked]

FleeInit ==
    /\ phase = "flee"
    /\ ret = NoRet
    /\ srch = NoSearch
    /\ avd = NoAvoid
    /\ \E pos \in {<<1, 1>>, <<2, 2>>, <<4, 1>>},
          S \in {T \in SUBSET (1..MaxFleeTurn) : Cardinality(T) <= MaxFled} :
         /\ gs = FleeBoard(pos)
         /\ \E checked \in {0} \cup {Increasing(S)[i] : i \in 5..Cardinality(S)} :
                agent = FledAttacker(FleeBoard(pos), Increasing(S), checked)

\* One call of has_been_fleeing_too_much; no flee is recorded between the
\* first call and the second.
FleeCheck ==
    /\ phase \in {"flee", "flee_again"}
    /\ agent' = has_been_fleeing_too_much(agent, gs).ag
    /\ ret' = [move |-> IF has_been_fleeing_too_much(agent, gs).result
                        THEN "True" ELSE "False",
               branch |-> "flee_check"]
    /\ phase' = IF phase = "flee" THEN "flee_again" ELSE "flee_done"
    /\ UNCHANGED <<gs, srch, avd>>

SpecFlee == FleeInit /\ [][FleeCheck]_vars

-----------------------------------------------------------------------------
(* A match taken up at home after the attacker has fled a number of times.  *)

\* The turns played from there.
RallyTurns == 9

\* Where the attacker is taken up.
RallyStarts == {<<1, 1>>, <<2, 1>>, <<5, 2>>}

\* The attacker on cell pos of its home, its opening played, having fled on
\* the turns of S and not yet asked about them.
RallyInit ==
    /\ phase = "agent"
    /\ ret = NoRet
    /\ srch = NoSearch
    /\ avd = NoAvoid
    /\ \E k \in RallyScenarioIds, pos \in RallyStarts,
          S \in {T \in SUBSET (1..MaxFleeTurn) : Cardinality(T) \in {0, MaxFled}} :
         /\ gs = [InitialGameState(k) EXCEPT
                     !.pos = pos,
                     !.enemies = Observed(Scenario(k).enemySpawns, pos)]
         /\ agent = FledAttacker(InitialGameState(k), Increasing(S), 0)

\* The attacker's turn, for RallyTurns turns past the last turn it may have
\* fled on.
RallyTurn ==
    /\ agent.turn_counter < MaxFleeTurn + RallyTurns
    /\ AttackTurn

SpecRally == RallyInit /\ [][RallyTurn \/ EnvStep]_vars

-----------------------------------------------------------------------------
(* Two AttackAgent instances in one process.  has_fled is a list made once, *)
(* in the class body (line 72), and no method assigns self.has_fled: line   *)
(* 283 appends to the one list that every instance reads.  agent and gs are *)
(* here the two instances and the snapshot each is handed; ret.who is the   *)
(* instance that moved last, and the engine serves them in turn.            *)

\* The snapshot of instance i at the start.
TeamBoard(i) ==
    [InitialGameState(11) EXCEPT
        !.pos = TeamSpawns[i],
        !.spawn = TeamSpawns[i],
        !.enemies = Observed(Scenario(11).enemySpawns, TeamSpawns[i])]

TeamInit ==
    /\ phase = "team_agent"
    /\ ret = [move |-> "none", branch |-> "none", who |-> 2]
    /\ srch = NoSearch
    /\ avd = NoAvoid
    /\ gs = [i \in 1..2 |-> TeamBoard(i)]
    /\ agent = [i \in 1..2 |-> AttackAgentInit(TRUE, TeamBoard(i))]

\* What a turn of instance i leaves: o is its choose_action; the other
\* instance reads the list the turn has appended to.
TeamAfter(i, o) ==
    /\ agent' = [j \in 1..2 |->
                    IF j = i THEN o.ag
                    ELSE [agent[j] EXCEPT !.has_fled = o.ag.has_fled]]
    /\ ret' = [move |-> o.ret, branch |-> o.branch, who |-> i]

\* choose_action of the instance whose turn it is.
TeamTurn ==
    /\ phase = "team_agent"
    /\ agent[3 - ret.who].turn_counter < TeamTurns
    /\ \E top \in TopDraws, alt \in AltDraws(gs[3 - ret.who]) :
         TeamAfter(3 - ret.who,
                   AttackAgent_choose_action(agent[3 - ret.who], gs[3 - ret.who],
                                             [top |-> top, alt |-> alt]))
    /\ phase' = "team_env"
    /\ UNCHANGED <<gs, srch, avd>>

\* The boards after the move of instance i: g2 is its own, the other
\* instance sees the same food and opponents from where it stands.
TeamBoards(i, g2) ==
    [j \in 1..2 |->
        IF j = i THEN [g2 EXCEPT !.enemies = Observed(g2.truth, g2.pos)]
        ELSE [gs[j] EXCEPT !.foodE = g2.foodE, !.capsE = g2.capsE,
                           !.foodO = g2.foodO, !.capsO = g2.capsO,
                           !.truth = g2.truth,
                           !.enemies = Observed(g2.truth, gs[j].pos)]]

\* The engine after the move of the instance that moved last.
TeamEnvStep ==
    /\ phase = "team_env"
    /\ IF ret.move \in LegalMoves(agent[ret.who], gs[ret.who]) \cup {"Stop"}
       THEN /\ phase' = "team_agent"
            /\ ret' = [ret EXCEPT !.move = "none", !.branch = "none"]
            /\ \E truth \in [1..Len(gs[ret.who].truth) -> Layout(gs[ret.who].lay).open \cup {None}] :
                 /\ \A k \in 1..Len(truth) :
                        truth[k] \in EnemyOptions(
                            AfterMove(agent[ret.who], gs[ret.who], ret.move), k)
                 /\ gs' = TeamBoards(ret.who,
                              AfterEnemies(agent[ret.who],
                                  AfterMove(agent[ret.who], gs[ret.who], ret.move), truth))
       ELSE /\ phase' = "crashed"
            /\ UNCHANGED <<gs, ret>>
    /\ UNCHANGED <<agent, srch, avd>>

SpecTeam == TeamInit /\ [][TeamTurn \/ TeamEnvStep]_vars

-----------------------------------------------------------------------------
(* The planner's results.                                                  *)

\* The position reached from start by the first k of the actions.
RECURSIVE PathPos(_, _, _)
PathPos(start, actions, k) ==
    IF k = 0 THEN start ELSE Step(PathPos(start, actions, k - 1), actions[k])

HeuristicIsConstantOne ==
    \A p \in Layout(gs.lay).open : heuristic(agent, p, gs) = 1

SearchEnded == phase = "search" /\ srch.st.status # "running"

\* C2: with the constant heuristic 1 a search between two connected cells
\* returns a move sequence as long as the true shortest-path distance.
C2_ShortestWithConstantHeuristic ==
    (SearchEnded /\ HeuristicIsConstantOne) =>
        /\ srch.st.status = "found"
        /\ Len(srch.st.actions) = get_maze_distance(agent, srch.start, srch.goal)

C2_Witness ==
    /\ SearchEnded
    /\ HeuristicIsConstantOne
    /\ srch.st.status = "found"
    /\ Len(srch.st.actions) >= 5

\* C3: under either heuristic the returned sequence holds only the four
\* cardinal moves, each legal where it is taken, and walked from start it
\* reaches goal with its last move and not before.
C3_PathLeadsToGoal ==
    (phase = "search" /\ srch.st.status = "found") =>
        LET acts == srch.st.actions
            at(k) == PathPos(srch.start, acts, k)
        IN  /\ \A i \in 1..Len(acts) : acts[i] \in Moves
            /\ \A i \in 1..Len(acts) : ~Walls(gs.lay, at(i))
            /\ at(Len(acts)) = srch.goal
            /\ srch.st.pos = srch.goal
            /\ \A i \in 0..(Len(acts) - 1) : at(i) # srch.goal

\* An inflating heuristic at work: the route returned is longer than the
\* shortest one.
C3_Witness ==
    /\ phase = "search"
    /\ srch.st.status = "found"
    /\ ~HeuristicIsConstantOne
    /\ Len(srch.st.actions) > get_maze_distance(agent, srch.start, srch.goal)

-----------------------------------------------------------------------------
(* The collision filter's results.                                         *)

\* A cell at maze distance 2 or more from every enemy in sight that is
\* outside the agent's home territory.
SafeCell(ag, game_state, cell) ==
    \A e \in VisibleEnemies(game_state) :
        ~in_our_field(ag, e, game_state) => get_maze_distance(ag, cell, e) >= 2

SomeSafeMove(ag, game_state) ==
    \E a \in LegalMoves(ag, game_state) : SafeCell(ag, game_state, Step(game_state.pos, a))

AvoidEnded == phase = "avoid" /\ avd.result # "none"

\* C4: when some legal cardinal move leads to a cell at distance 2 or more
\* from every visible enemy outside home territory, the move returned by
\* avoid_enemy_collision leads to such a cell.
C4_ReturnsSafeMoveWhenOneExists ==
    (AvoidEnded /\ SomeSafeMove(agent, gs)) =>
        /\ avd.result \in Moves
        /\ SafeCell(agent, gs, Step(gs.pos, avd.result))

\* C5: when every legal cardinal move leads to a cell within distance 1 of
\* a visible enemy outside home territory, avoid_enemy_collision returns the
\* proposed move unchanged.
C5_ReturnsProposedWhenNoneSafe ==
    (AvoidEnded /\ ~SomeSafeMove(agent, gs)) => avd.result = avd.next_action

-----------------------------------------------------------------------------
(* The agents' turns.  In phase "env" the variables hold a call of         *)
(* choose_action that has just ended: gs is the snapshot it was given,     *)
(* agent the instance as the call left it, ret what it returned.           *)

\* C1: every call of the attacker's and of the defender's choose_action
\* ends without an exception and returns one of North, South, East, West,
\* Stop that is legal from the agent's position.
C1_ReturnsLegalMove ==
    phase = "env" => ret.move \in LegalMoves(agent, gs) \cup {"Stop"}

\* C6: after the attacker's update_counters, food_eaten is 0 on every turn
\* on which the agent's observed position is in its home territory.
C6_FoodEatenZeroAtHome ==
    (phase = "env" /\ agent.role = "attack" /\ in_our_field(agent, gs.pos, gs)) =>
        agent.food_eaten = 0

\* One turn of a power-up counter: never negative, set to the duration when
\* the capsule count observed is below the one stored, else one less than
\* before down to 0.
CounterTurn(before, after, stored, observed, duration) ==
    /\ after >= 0
    /\ after > before => observed < stored
    /\ observed < stored => after = duration
    /\ ~(observed < stored) => after = (IF before > 0 THEN before - 1 ELSE 0)

\* C7: in both policies the power-up counter is never negative, grows from
\* one turn to the next only on a turn where the capsule count observed is
\* strictly below the stored one, is then set to the policy's duration (35
\* for the attacker, 40 for the defender), and otherwise goes down by one a
\* turn until it is 0.
C7_PowerUpCounter ==
    [][ /\ phase = "agent" /\ phase' = "env" =>
            IF agent.role = "attack"
            THEN CounterTurn(agent.turns_with_capsule_effect,
                             agent'.turns_with_capsule_effect,
                             agent.capsules_in_last_turn,
                             Cardinality(gs.capsE), 35)
            ELSE CounterTurn(agent.turns_with_capsule_effect,
                             agent'.turns_with_capsule_effect,
                             agent.capsules_in_last_turn,
                             Cardinality(gs.capsO), 40)
        /\ phase = "env" => agent' = agent ]_vars

\* The defender's counter back at 0 after the opponent took our capsule:
\* armed once, counted down forty times.
C7_Witness ==
    /\ phase = "env"
    /\ agent.role = "defend"
    /\ agent.capsules_in_last_turn < Cardinality(Scenario(gs.scn).capsO)
    /\ agent.turns_with_capsule_effect = 0

EnemyAtHomeTurn ==
    /\ phase = "agent" /\ phase' = "env"
    /\ agent.role = "defend"
    /\ agent.initial_goal # None
    /\ agent.initial_actions = <<>>
    /\ EnemiesInOurField(agent, gs) # {}

FirstEnemyAtHome ==
    gs.enemies[CHOOSE k \in EnemiesInOurField(agent, gs) :
                   \A j \in EnemiesInOurField(agent, gs) : k <= j]

\* The turn pursues: the move returned is a step of a shortest route to
\* the enemy.
Pursues ==
    /\ ret'.branch = "pursue"
    /\ ret'.move \in Moves
    /\ get_maze_distance(agent, Step(gs.pos, ret'.move), FirstEnemyAtHome)
          = get_maze_distance(agent, gs.pos, FirstEnemyAtHome) - 1

\* The turn falls back to the vertical patrol: the move returned is the
\* patrol's.
Patrols ==
    /\ ret'.branch = "patrol_fallback"
    /\ ret'.move = do_vertical_patrol(agent', gs, "patrol_fallback").ret

\* The turn's remaining duration and distance.
DurationAndDistance(duration, distance) ==
    /\ EnemyAtHomeTurn
    /\ agent'.turns_with_capsule_effect = duration
    /\ get_maze_distance(agent, gs.pos, FirstEnemyAtHome) = distance

\* C9, as the defender decides: with the opening queue empty, an enemy in
\* sight inside home territory and the power-up in effect, the defender
\* pursues when the remaining duration is 2 and the distance 5, and falls
\* back to the vertical patrol when the duration is 6 and the distance 2.
C9_PursuesWhenEffectExpiresFirst ==
    [][ /\ DurationAndDistance(2, 5) => Pursues
        /\ DurationAndDistance(6, 2) => Patrols ]_vars

\* Duration 2 and distance 5 met, and the enemy pursued.
C9_Witness ==
    /\ phase = "env"
    /\ agent.role = "defend"
    /\ ret.branch = "pursue"
    /\ agent.turns_with_capsule_effect = 2
    /\ EnemiesInOurField(agent, gs) # {}
    /\ get_maze_distance(agent, gs.pos, FirstEnemyAtHome) = 5

\* C9 as stated: patrol at duration 2 and distance 5, pursuit at duration
\* 6 and distance 2.
C9_AsStated ==
    [][ /\ DurationAndDistance(2, 5) => Patrols
        /\ DurationAndDistance(6, 2) => Pursues ]_vars

\* C10: with the opening queue empty and an enemy in sight inside home
\* territory the defender pursues when its power-up counter is 0; when the
\* counter is positive it pursues exactly when the counter is strictly
\* below the maze distance to that enemy, and falls back to the vertical
\* patrol otherwise.
C10_PursuitRule ==
    [][ EnemyAtHomeTurn =>
          LET duration == agent'.turns_with_capsule_effect
              distance == get_maze_distance(agent, gs.pos, FirstEnemyAtHome)
          IN  /\ duration = 0 => Pursues
              /\ duration > 0 => (Pursues <=> duration < distance)
              /\ (duration > 0 /\ duration >= distance) => Patrols ]_vars

\* The effect lasts exactly as long as the way to the enemy, and the
\* defender patrols.
C10_Witness ==
    /\ phase = "env"
    /\ agent.role = "defend"
    /\ ret.branch = "patrol_fallback"
    /\ agent.turns_with_capsule_effect > 0
    /\ EnemiesInOurField(agent, gs) # {}
    /\ agent.turns_with_capsule_effect = get_maze_distance(agent, gs.pos, FirstEnemyAtHome)

-----------------------------------------------------------------------------
(* The defender's food-loss tracking.                                      *)

\* The home-territory food of the last observation missing from this one.
LostFood == agent.food_positions_in_last_turn \ (gs.foodO \cup gs.capsO)

\* A defender's turn past its first.
DefenderTurn ==
    /\ phase = "agent" /\ phase' = "env"
    /\ agent.role = "defend"
    /\ agent.initial_goal # None

\* A defender's turn with the opening queue empty and no enemy in sight
\* inside home territory.
QuietTurn ==
    /\ DefenderTurn
    /\ agent.initial_actions = <<>>
    /\ EnemiesInOurField(agent, gs) = {}

\* The move returned is a step of a shortest route to cell p.
RoutesTo(p) ==
    /\ ret'.move \in Moves
    /\ get_maze_distance(agent, Step(gs.pos, ret'.move), p)
          = get_maze_distance(agent, gs.pos, p) - 1

\* C11: a home-territory food position missing from the current observation
\* is recorded; on a turn with the opening queue empty, no enemy in sight
\* at home and the defender not on the recorded position, the move returned
\* is the first of a route to it and the record is kept; the record goes
\* back to none only on a turn where the defender stands on it, and
\* changes otherwise only to a newer loss.
C11_FoodLossTracked ==
    [][ DefenderTurn =>
          /\ LostFood # {} => agent'.eaten_food_position \in LostFood
          /\ LostFood = {} =>
                \/ agent'.eaten_food_position = agent.eaten_food_position
                \/ /\ agent'.eaten_food_position = None
                   /\ gs.pos = agent.eaten_food_position
          /\ agent'.eaten_food_position = None /\ agent.eaten_food_position # None =>
                QuietTurn /\ gs.pos = agent.eaten_food_position
          /\ QuietTurn /\ agent'.eaten_food_position # None =>
                /\ agent'.eaten_food_position # gs.pos
                /\ ret'.branch = "food_loss"
                /\ RoutesTo(agent'.eaten_food_position) ]_vars

\* The defender on the position of the loss it tracked, the record cleared
\* and the patrol resumed.
C11_Witness ==
    /\ phase = "env"
    /\ agent.role = "defend"
    /\ ret.branch = "patrol"
    /\ agent.eaten_food_position = None
    /\ gs.pos \in (Scenario(gs.scn).foodO \cup Scenario(gs.scn).capsO)
                    \ (gs.foodO \cup gs.capsO)

-----------------------------------------------------------------------------
(* The vertical patrol.                                                    *)

\* The move returned is the first of the planner's route to cell p.
FirstMoveOfRouteTo(p) ==
    /\ aStarSearch(agent, gs.pos, p, gs).status = "found"
    /\ aStarSearch(agent, gs.pos, p, gs).actions # <<>>
    /\ ret'.move = Head(aStarSearch(agent, gs.pos, p, gs).actions)

-----------------------------------------------------------------------------
(* The attacker's opening queue.                                           *)

\* An attacker's turn with the opening planned on an earlier one.
PlannedAttackerTurn ==
    /\ phase = "agent" /\ phase' = "env"
    /\ agent.role = "attack"
    /\ agent.already_randomized

\* C13: once planned, the attacker's opening queue changes only by losing
\* its front element on the turn that takes it, or by being emptied on a
\* turn where the agent stands on its spawn; it never grows and is never
\* emptied for another reason.
C13_OpeningQueueOnlyDrained ==
    [][ PlannedAttackerTurn =>
          \/ agent'.first_actions = agent.first_actions
          \/ /\ agent.first_actions # <<>>
             /\ agent'.first_actions = Tail(agent.first_actions)
          \/ /\ agent'.first_actions = <<>>
             /\ gs.pos = gs.spawn ]_vars

-----------------------------------------------------------------------------
(* A search that finds no route.                                           *)

\* The search of calculate_patrol_points on the defender's first turn: from
\* its position to our food closest to the enemy's spawn.
OpeningSearch(ag, game_state) ==
    aStarSearch(ag, get_our_position(ag, game_state),
                MinFoodPosition(
                    SortByDistance([i \in 1..Len(get_food_positions_ours(ag, game_state)) |->
                        [d |-> get_maze_distance(ag, get_initial_enemy_position(ag, game_state),
                                                 get_food_positions_ours(ag, game_state)[i]),
                         pos |-> get_food_positions_ours(ag, game_state)[i]]]),
                    FALSE, 0),
                game_state)

\* C14: a search that exhausts its frontier yields an empty move sequence
\* and the turn that made it returns Stop; here for the defender's opening
\* search.
C14_ExhaustedSearchStops ==
    [][ /\ phase = "agent" /\ phase' = "env"
        /\ agent.role = "defend"
        /\ agent.initial_goal = None
        /\ get_food_positions_ours(agent, gs) # <<>>
        /\ OpeningSearch(agent, gs).status = "nopath"
        => ret'.move = "Stop" ]_vars

-----------------------------------------------------------------------------
(* The defender back on its spawn with opening moves left.                 *)

\* A turn of the defender that finds it on its spawn, the opening planned
\* on an earlier turn and not yet played to its end: the routes aStarSearch
\* returns never pass a cell twice, so it has been captured since.
RespawnedInOpening ==
    /\ phase = "agent" /\ phase' = "env"
    /\ agent.role = "defend"
    /\ agent.initial_goal # None
    /\ agent.initial_actions # <<>>
    /\ gs.pos = gs.spawn

\* C15: a defender captured and respawned while its opening queue is not
\* empty has the queue cleared before its next move is chosen, and that
\* move is not one of the queue.
C15_QueueClearedAfterCapture ==
    [][ RespawnedInOpening =>
          /\ agent'.initial_actions = <<>>
          /\ ret'.branch # "opening" ]_vars

-----------------------------------------------------------------------------
(* The attacker back on its spawn.                                         *)

\* A turn of the attacker that finds it on its spawn with the opening
\* planned.
RespawnedAttackerTurn ==
    /\ phase = "agent" /\ phase' = "env"
    /\ agent.role = "attack"
    /\ agent.already_randomized
    /\ gs.pos = gs.spawn

\* The agent without what an earlier plan left in it: the queued opening,
\* the turns it was to keep fleeing and the rally point.
WithoutPlans(ag) ==
    [ag EXCEPT !.first_actions = <<>>, !.turns_has_to_flee = 0, !.fleeing_point = None]

-----------------------------------------------------------------------------
(* The patrol without endpoints.                                           *)

\* The defender has just moved and its patrol endpoints are not computed:
\* calculate_patrol_points runs on every turn until it finds food of ours,
\* so there has been none so far.
MovedWithoutEndpoints ==
    /\ phase = "env"
    /\ agent.role = "defend"
    /\ agent.patrol_point_1 = None
    /\ agent.patrol_point_2 = None

\* C17: a defender whose patrol endpoints were never computed returns Stop
\* on every turn that reaches the patrol, directly or as the fallback from
\* pursuit.
C17_PatrolWithoutEndpointsStops ==
    MovedWithoutEndpoints /\ ret.branch \in {"patrol", "patrol_fallback"}
        => ret.move = "Stop"

\* The defender, nothing of ours on the board since the start, has patrolled
\* on a turn past its first.
C17_Witness ==
    /\ MovedWithoutEndpoints
    /\ ret.branch = "patrol"
    /\ ret.move = "Stop"
    /\ agent.initial_goal = None
    /\ gs.foodO \cup gs.capsO = {}
    /\ gs.truth[1] # Scenario(gs.scn).enemySpawns[1]

-----------------------------------------------------------------------------
(* The frontier of a search.                                               *)

\* C18: at every point of a search each position is held by at most one
\* entry of the frontier.
C18_OnePositionOnceInFrontier ==
    phase = "search" =>
        \A e, f \in srch.st.heap : e.item.pos = f.item.pos => e = f

\* C19: every successor entry of the frontier stores as cost the number of
\* moves of its sequence, and is keyed by that cost plus the heuristic of
\* its own position.
C19_CostCountsMoves ==
    phase = "search" =>
        \A e \in srch.st.heap :
            e.item.actions # <<>> =>
                /\ e.item.cost = Len(e.item.actions)
                /\ e.p = Len(e.item.actions) + heuristic(agent, e.item.pos, gs)

-----------------------------------------------------------------------------
(* The flee cluster.                                                       *)

\* The k-th most recent gap between two recorded flee turns.
FleeGap(k) == Last(agent.has_fled, k) - Last(agent.has_fled, k + 1)

\* C20: has_been_fleeing_too_much answers True only for an agent at home
\* whose three most recent gaps between recorded flee turns are all 4 turns
\* or less, and a second call with no new flee recorded answers False.
C20_ClusterOfThreeGaps ==
    /\ (phase \in {"flee_again", "flee_done"} /\ ret.move = "True") =>
          /\ in_our_field(agent, get_our_position(agent, gs), gs)
          /\ Len(agent.has_fled) >= 4
          /\ \A k \in 1..3 : FleeGap(k) <= TURNS_FLEEING_TOO_MUCH
    /\ phase = "flee_done" => ret.move = "False"

-----------------------------------------------------------------------------
(* The rally after a flee cluster.                                         *)

AttackerTurn ==
    /\ phase = "agent" /\ phase' = "env"
    /\ agent.role = "attack"

\* choose_action, line 304: the Return state.
Returning(a1, game_state) ==
    \/ a1.food_eaten > FOOD_EATEN_TO_RETURN
    \/ Len(get_food_positions_enemy(a1, game_state)) = 0

\* decide_action_in_enemy_field, lines 267-278: an enemy forces a flee.
ForcedToFlee(a1, game_state) ==
    /\ ~in_our_field(a1, get_our_position(a1, game_state), game_state)
    /\ a1.turns_with_capsule_effect = 0
    /\ \E e \in VisibleEnemies(game_state) :
           /\ ~in_our_field(a1, e, game_state)
           /\ get_maze_distance(a1, get_our_position(a1, game_state), e)
                  < ATT_DISTANCE_FROM_ENEMY_TO_FLEE

\* The turn reaches the rally test of decide_action_attack: no Return, no
\* forced flee, no opening move left.
PastOpening(a1, game_state) ==
    /\ ~Returning(a1, game_state)
    /\ ~ForcedToFlee(a1, game_state)
    /\ a1.already_randomized
    /\ a1.first_actions = <<>>

\* has_been_fleeing_too_much is asked this turn and reports a cluster.
ClusterReported(a1, game_state) ==
    /\ PastOpening(a1, game_state)
    /\ a1.turns_has_to_flee = 0
    /\ has_been_fleeing_too_much(a1, game_state).result

\* C21, arming: a cluster reported with food of ours on the board sets the
\* must-keep-fleeing counter to 6 and the move is the first of a route to
\* the rally point chosen.
C21_Armed ==
    [][ /\ AttackerTurn
        /\ ClusterReported(AttackAgent_update_counters(agent, gs), gs)
        /\ get_food_positions_ours(agent, gs) # <<>>
        => /\ agent'.turns_has_to_flee = TURNS_HAS_TO_FLEE
           /\ agent'.fleeing_point
                 = get_fleeing_point(AttackAgent_update_counters(agent, gs), gs).point
           /\ FirstMoveOfRouteTo(agent'.fleeing_point) ]_vars

\* C21, the counter: it stays within 0..6 and, but on the turn that arms it,
\* is one less than on the turn before until it is 0.
C21_CountsDown ==
    [][ AttackerTurn =>
          /\ agent'.turns_has_to_flee \in 0..TURNS_HAS_TO_FLEE
          /\ ~ClusterReported(AttackAgent_update_counters(agent, gs), gs) =>
                agent'.turns_has_to_flee
                  = (IF agent.turns_has_to_flee > 0
                     THEN agent.turns_has_to_flee - 1 ELSE 0) ]_vars

\* C21, the window: while the counter is positive the move is the first of
\* a route to the stored rally point, chosen anew only when the attacker
\* stands on it.
C21_KeepsToRallyPoint ==
    [][ /\ AttackerTurn
        /\ PastOpening(AttackAgent_update_counters(agent, gs), gs)
        /\ AttackAgent_update_counters(agent, gs).turns_has_to_flee > 0
        => /\ agent'.fleeing_point
                 = (IF agent.fleeing_point = gs.pos
                    THEN get_fleeing_point(AttackAgent_update_counters(agent, gs), gs).point
                    ELSE agent.fleeing_point)
           /\ FirstMoveOfRouteTo(agent'.fleeing_point) ]_vars

\* C21, nothing to defend: a cluster reported with no food of ours on the
\* board makes the attacker plan to the closest enemy-side food.
C21_BareHomeGoesForFood ==
    [][ /\ AttackerTurn
        /\ ClusterReported(AttackAgent_update_counters(agent, gs), gs)
        /\ get_food_positions_ours(agent, gs) = <<>>
        => \E alt \in AltDraws(gs) :
              ret'.move
                = GoToClosestFood(agent', gs,
                      a_star_to_food_position(
                          agent', gs, get_food_positions_enemy(agent', gs),
                          FALSE, get_our_position(agent', gs), 0),
                      [top |-> 0, alt |-> alt], "attack_home").ret ]_vars

-----------------------------------------------------------------------------
(* The flee history.                                                       *)

StrictlyIncreasing(seq) == \A i \in 1..(Len(seq) - 1) : seq[i] < seq[i + 1]

\* The turn-by-turn half of C22 for one attacker alone: in enemy territory
\* and not returning, a forced flee appends the turn number once and the
\* move is the filtered first move of the route to the border; any other
\* turn leaves the history as it is.
FleeRecordedThisTurn ==
    [][ /\ AttackerTurn
        /\ ~in_our_field(agent, get_our_position(agent, gs), gs)
        /\ ~Returning(AttackAgent_update_counters(agent, gs), gs)
        => IF ForcedToFlee(AttackAgent_update_counters(agent, gs), gs)
           THEN /\ agent'.has_fled = Append(agent.has_fled, agent.turn_counter + 1)
                /\ \E alt \in AltDraws(gs) :
                      ret'.move = avoid_enemy_collision(
                          agent', get_our_position(agent, gs),
                          Head(aStarSearch(agent, get_our_position(agent, gs),
                                           get_closest_point_in_our_field(agent, gs),
                                           gs).actions),
                          gs, alt)
           ELSE agent'.has_fled = agent.has_fled ]_vars

\* C22: a forced flee in enemy territory appends the turn number to the
\* flee history once, any other turn leaves it alone, and so the flee
\* history of an agent is a strictly increasing sequence of turn numbers.
C22_HistoryStrictlyIncreasing ==
    \A i \in 1..2 : StrictlyIncreasing(agent[i].has_fled)

-----------------------------------------------------------------------------
(* Instances side by side.                                                 *)

\* C23: a turn taken by one policy instance leaves the policy state of
\* every other instance in the process as it was.
C23_OtherInstanceUntouched ==
    [][ phase = "team_agent" /\ phase' = "team_env" =>
          agent'[3 - ret'.who] = agent[3 - ret'.who] ]_vars

-----------------------------------------------------------------------------
(* The collision filter on every move.                                     *)

\* C24: the move a policy returns has passed the collision filter, so it
\* leads to a cell within maze distance 1 of a visible enemy outside home
\* territory only when no legal move leads elsewhere; here for the moves of
\* the defender.
C24_DefenderMovesFiltered ==
    /\ phase = "env"
    /\ agent.role = "defend"
    /\ ret.move \in Moves
    /\ ~SafeCell(agent, gs, Step(gs.pos, ret.move))
    => ~SomeSafeMove(agent, gs)

-----------------------------------------------------------------------------
(* The attacker under the power-up.                                        *)

\* The moves choose_action may return on a board, over the draws of
\* random.choice.
MovesOn(ag, game_state) ==
    {AttackAgent_choose_action(ag, game_state, [top |-> 0, alt |-> alt]).ret :
        alt \in AltDraws(game_state)}

\* The boards that differ from game_state only in where the first opponent
\* is seen: out of sight, or on a cell in sight other than the agent's.
SeenElsewhere(game_state) ==
    {[game_state EXCEPT !.enemies = <<e, None>>] :
        e \in {None} \cup {c \in Layout(game_state.lay).open \ {game_state.pos} :
                              Manhattan(c, game_state.pos) <= 5}}

\* C25: with the power-up counter positive, the opening over and no Return,
\* the attacker returns the same move on any two boards that differ only
\* in the visible positions of the enemies.
C25_IgnoresEnemiesUnderPowerUp ==
    [][ /\ AttackerTurn
        /\ AttackAgent_update_counters(agent, gs).turns_with_capsule_effect > 0
        /\ AttackAgent_update_counters(agent, gs).already_randomized
        /\ AttackAgent_update_counters(agent, gs).first_actions = <<>>
        /\ ~Returning(AttackAgent_update_counters(agent, gs), gs)
        => \A other \in SeenElsewhere(gs) : MovesOn(agent, other) = MovesOn(agent, gs) ]_vars

-----------------------------------------------------------------------------
(* The attacker's count of the enemy food.                                 *)

\* C26: after every counter update of the attacker the stored last-seen
\* count is the number of enemy-side food and capsule positions of the
\* snapshot just observed.
C26_StoredCountIsObservedCount ==
    (phase = "env" /\ agent.role = "attack") =>
        agent.food_in_last_turn = Len(get_food_positions_enemy(agent, gs))

-----------------------------------------------------------------------------
(* The end of a search.                                                    *)

\* The cells a walk from cell p can reach.
RECURSIVE ReachableFrom(_, _)
ReachableFrom(l, seen) ==
    IF (UNION {Neighbours(l, p) : p \in seen}) \subseteq seen THEN seen
    ELSE ReachableFrom(l, seen \cup UNION {Neighbours(l, p) : p \in seen})

\* A pass that adds to the visited set adds the position of the node it
\* takes off the frontier, which was not visited before.
ExpandsDequeuedOnce ==
    [][ srch'.st.visited # srch.st.visited =>
          /\ HeapMin(srch.st.heap) \notin srch'.st.heap
          /\ HeapMin(srch.st.heap).item.pos \notin srch.st.visited
          /\ srch'.st.visited
                = srch.st.visited \cup {HeapMin(srch.st.heap).item.pos} ]_vars

\* C27: aStarSearch terminates on a finite maze under either heuristic: a
\* position joins the visited set only when it is dequeued and only once,
\* the visited positions are cells reachable from the start, and the search
\* ends, the goal dequeued or the frontier empty.
C27_SearchTerminates ==
    /\ ExpandsDequeuedOnce
    /\ [](srch.st.visited \subseteq ReachableFrom(gs.lay, {srch.start}))
    /\ <>(srch.st.status # "running")

\* A search ended with its frontier empty, every cell within reach visited
\* once and the goal not among them.
C27_Witness ==
    /\ phase = "search"
    /\ srch.st.status = "nopath"
    /\ srch.st.visited = ReachableFrom(gs.lay, {srch.start})
    /\ srch.goal \notin srch.st.visited
    /\ Cardinality(srch.st.visited) > 10

=============================================================================
